---- MODULE Spec2Model ----
(***************************************************************************)
(* Habit tracker bot: recurrence engine (habitbot/utils/dates.py), streak  *)
(* calculator and habit lifecycle service (habitbot/services/habits.py),   *)
(* reminder sweep (habitbot/services/reminders.py, app.py).                *)
(*                                                                         *)
(* Representation.  A Python `date` is the integer number of days since    *)
(* 1970-01-01 (timedelta arithmetic is integer arithmetic).  A stored ISO  *)
(* string "YYYY-MM-DD" is the tuple <<YYYY, MM, DD>> of its three          *)
(* zero-padded fields; string comparison is the lexicographic order of     *)
(* the tuple.  An "HH:MM" string is the tuple <<HH, MM>>.  Python's None   *)
(* is the empty tuple for strings, NoInt for integers, NoDoc for           *)
(* documents.                                                              *)
(***************************************************************************)
EXTENDS Integers, Sequences, FiniteSets, Bags, TLC

None == <<>>
NoInt == 0 - 1
NoDoc == [none |-> TRUE]

Max(a, b) == IF a >= b THEN a ELSE b
Min(a, b) == IF a <= b THEN a ELSE b

(***************************************************************************)
(* datetime.date / calendar (standard library used by utils/dates.py)      *)
(***************************************************************************)
isleap(y) == (y % 4 = 0 /\ y % 100 # 0) \/ y % 400 = 0

\* calendar.monthrange(year, month)[1]
monthrange(y, m) ==
    IF m = 2 THEN (IF isleap(y) THEN 29 ELSE 28)
    ELSE IF m \in {4, 6, 9, 11} THEN 30 ELSE 31

\* date(y, m, d): the day number of a civil date
date(y, m, d) ==
    LET yy  == IF m <= 2 THEN y - 1 ELSE y
        era == yy \div 400
        yoe == yy - era * 400
        mp  == IF m > 2 THEN m - 3 ELSE m + 9
        doy == (153 * mp + 2) \div 5 + d - 1
        doe == yoe * 365 + yoe \div 4 - yoe \div 100 + doy
    IN  era * 146097 + doe - 719468

\* <<day.year, day.month, day.day>> of a day number
ymd(day) ==
    LET z   == day + 719468
        era == z \div 146097
        doe == z - era * 146097
        yoe == (doe - doe \div 1460 + doe \div 36524 - doe \div 146096) \div 365
        doy == doe - (365 * yoe + yoe \div 4 - yoe \div 100)
        mp  == (5 * doy + 2) \div 153
        d   == doy - (153 * mp + 2) \div 5 + 1
        m   == IF mp < 10 THEN mp + 3 ELSE mp - 9
        y   == yoe + era * 400 + (IF m <= 2 THEN 1 ELSE 0)
    IN  <<y, m, d>>

\* day.weekday(): Monday = 0 .. Sunday = 6 (1970-01-01 was a Thursday)
weekday(day) == (day + 3) % 7

\* day.strftime("%Y-%m-%d")
as_iso(day) == ymd(day)

\* datetime.strptime(value, "%Y-%m-%d").date()
parse_iso(value) == date(value[1], value[2], value[3])

\* the order of two ISO strings (what the store's $lte compares)
IsoLeq(a, b) ==
    \/ a[1] < b[1]
    \/ a[1] = b[1] /\ a[2] < b[2]
    \/ a[1] = b[1] /\ a[2] = b[2] /\ a[3] <= b[3]

\* the order of two "HH:MM" strings: reminder_time > time_now
TimeGt(a, b) == a[1] > b[1] \/ (a[1] = b[1] /\ a[2] > b[2])

(***************************************************************************)
(* Recurrence engine                                                       *)
(***************************************************************************)
\* a repeat document: mode and the keys of RepeatConfig; a missing key is
\* NoInt, or the empty set for weekdays
RepeatDoc(mode, weekdays, interval_days, week_day, month_day) ==
    [mode |-> mode, weekdays |-> weekdays, interval_days |-> interval_days,
     week_day |-> week_day, month_day |-> month_day]

\* the interval taken as one day whatever is stored
interval_of_one(repeat) == 1

\* repeat.get("interval_days") or 1, then max(1, int(...))
interval_of(repeat) ==
    Max(1, IF repeat.interval_days = NoInt \/ repeat.interval_days = 0
           THEN 1 ELSE repeat.interval_days)

\* the weekday set as it is stored, also when it is empty
allowed_of_stored(repeat) == repeat.weekdays

\* allowed = repeat.get("weekdays") or []; if not allowed: allowed = list(range(7))
allowed_of(repeat) == IF repeat.weekdays = {} THEN 0..6 ELSE repeat.weekdays

\* the day of the month taken from start_date whatever is configured
month_day_of_start(repeat, start) == ymd(start)[3]

\* int(repeat.get("month_day") or start.day)
month_day_of(repeat, start) ==
    IF repeat.month_day = NoInt \/ repeat.month_day = 0
    THEN ymd(start)[3] ELSE repeat.month_day

\* models.py, lines 10-15: the values of the enumeration RepeatMode
RepeatMode == {"daily", "weekdays", "weekly", "monthly", "interval"}

\* RepeatMode(repeat.get("mode", ...)) raises ValueError for any other value
invalid_mode(repeat) == repeat.mode \notin RepeatMode

\* is_due_on, lines 78-89: the early returns come before the conversion of
\* the mode, which raises
is_due_on_raises(habit, day) ==
    /\ habit.start_date # None
    /\ day >= parse_iso(habit.start_date)
    /\ ~(habit.target_date # None /\ day > parse_iso(habit.target_date))
    /\ invalid_mode(habit.repeat)

\* is_due_on with the weekly anchor always taken from start_date
is_due_on_anchor_from_start(habit, day) ==
    IF habit.start_date = None THEN FALSE
    ELSE LET start  == parse_iso(habit.start_date)
             repeat == habit.repeat
             mode   == repeat.mode
         IN  IF day < start THEN FALSE
             ELSE IF habit.target_date # None /\ day > parse_iso(habit.target_date)
                  THEN FALSE
             ELSE IF mode = "daily" THEN TRUE
             ELSE IF mode = "interval"
                  THEN (day - start) % interval_of(repeat) = 0
             ELSE IF mode = "weekly"
                  THEN LET desired == weekday(start)
                       IN  weekday(day) = desired
             ELSE IF mode = "weekdays"
                  THEN weekday(day) \in allowed_of(repeat)
             ELSE IF mode = "monthly"
                  THEN LET t == ymd(day)
                           effective_day ==
                               Min(month_day_of(repeat, start), monthrange(t[1], t[2]))
                       IN  t[3] = effective_day
             ELSE TRUE

\* is_due_on with the start date itself not due
is_due_on_after_start(habit, day) ==
    IF habit.start_date = None THEN FALSE
    ELSE LET start  == parse_iso(habit.start_date)
             repeat == habit.repeat
             mode   == repeat.mode
         IN  IF day <= start THEN FALSE
             ELSE IF habit.target_date # None /\ day > parse_iso(habit.target_date)
                  THEN FALSE
             ELSE IF mode = "daily" THEN TRUE
             ELSE IF mode = "interval"
                  THEN (day - start) % interval_of(repeat) = 0
             ELSE IF mode = "weekly"
                  THEN LET desired == IF repeat.week_day = NoInt
                                      THEN weekday(start) ELSE repeat.week_day
                       IN  weekday(day) = desired
             ELSE IF mode = "weekdays"
                  THEN weekday(day) \in allowed_of(repeat)
             ELSE IF mode = "monthly"
                  THEN LET t == ymd(day)
                           effective_day ==
                               Min(month_day_of(repeat, start), monthrange(t[1], t[2]))
                       IN  t[3] = effective_day
             ELSE TRUE

\* is_due_on without the check of target_date
is_due_on_no_target(habit, day) ==
    IF habit.start_date = None THEN FALSE
    ELSE LET start  == parse_iso(habit.start_date)
             repeat == habit.repeat
             mode   == repeat.mode
         IN  IF day < start THEN FALSE
             ELSE IF mode = "daily" THEN TRUE
             ELSE IF mode = "interval"
                  THEN (day - start) % interval_of(repeat) = 0
             ELSE IF mode = "weekly"
                  THEN LET desired == IF repeat.week_day = NoInt
                                      THEN weekday(start) ELSE repeat.week_day
                       IN  weekday(day) = desired
             ELSE IF mode = "weekdays"
                  THEN weekday(day) \in allowed_of(repeat)
             ELSE IF mode = "monthly"
                  THEN LET t == ymd(day)
                           effective_day ==
                               Min(month_day_of(repeat, start), monthrange(t[1], t[2]))
                       IN  t[3] = effective_day
             ELSE TRUE

\* is_due_on, lines 77-119, when it does not raise
is_due_on(habit, day) ==
    IF habit.start_date = None THEN FALSE
    ELSE LET start  == parse_iso(habit.start_date)
             repeat == habit.repeat
             mode   == repeat.mode
         IN  IF day < start THEN FALSE
             ELSE IF habit.target_date # None /\ day > parse_iso(habit.target_date)
                  THEN FALSE
             ELSE IF mode = "daily" THEN TRUE
             ELSE IF mode = "interval"
                  THEN (day - start) % interval_of(repeat) = 0
             ELSE IF mode = "weekly"
                  THEN LET desired == IF repeat.week_day = NoInt
                                      THEN weekday(start) ELSE repeat.week_day
                       IN  weekday(day) = desired
             ELSE IF mode = "weekdays"
                  THEN weekday(day) \in allowed_of(repeat)
             ELSE IF mode = "monthly"
                  THEN LET t == ymd(day)
                           effective_day ==
                               Min(month_day_of(repeat, start), monthrange(t[1], t[2]))
                       IN  t[3] = effective_day
             ELSE TRUE

\* The loops and the tail recursion of the source are run by halving an
\* iteration budget (run(s, n) = run(run(s, n \div 2), n - n \div 2)), which
\* executes the same iterations in the same order with a shallow call stack.

\* the backward scan that stops at the day before from_day
scan_weekdays_no_scan(habit, start, candidate, budget) == candidate

\* the WEEKDAYS backward scan of previous_due_date (lines 144-148): the
\* candidate after at most `budget` iterations of the while loop
RECURSIVE scan_weekdays(_, _, _, _)
scan_weekdays(habit, start, candidate, budget) ==
    IF \/ candidate < start
       \/ (weekday(candidate) \in allowed_of(habit.repeat) /\ is_due_on(habit, candidate))
    THEN candidate
    ELSE IF budget <= 1 THEN candidate - 1
    ELSE LET half == scan_weekdays(habit, start, candidate, budget \div 2)
         IN  scan_weekdays(habit, start, half, budget - budget \div 2)

\* candidate_of with the monthly clamp to the previous month's length left out
candidate_of_unclamped(habit, start, from_day) ==
    LET repeat == habit.repeat
        mode   == repeat.mode
    IN  IF mode = "daily" THEN from_day - 1
        ELSE IF mode = "interval" THEN from_day - interval_of(repeat)
        ELSE IF mode = "weekly" THEN from_day - 7
        ELSE IF mode = "weekdays"
             THEN scan_weekdays(habit, start, from_day - 1, from_day - start + 1)
        ELSE IF mode = "monthly"
             THEN LET f == ymd(from_day)
                      p == ymd(date(f[1], f[2], 1) - 1)
                  IN  date(p[1], p[2], month_day_of(repeat, start))
        ELSE from_day - 1

\* the candidate computed by previous_due_date (lines 133-157)
candidate_of(habit, start, from_day) ==
    LET repeat == habit.repeat
        mode   == repeat.mode
    IN  IF mode = "daily" THEN from_day - 1
        ELSE IF mode = "interval" THEN from_day - interval_of(repeat)
        ELSE IF mode = "weekly" THEN from_day - 7
        ELSE IF mode = "weekdays"
             THEN scan_weekdays(habit, start, from_day - 1, from_day - start + 1)
        ELSE IF mode = "monthly"
             THEN LET f == ymd(from_day)
                      first_of_month == date(f[1], f[2], 1)
                      previous_month_last == first_of_month - 1
                      p == ymd(previous_month_last)
                      last_day_prev == monthrange(p[1], p[2])
                      effective_day == Min(month_day_of(repeat, start), last_day_prev)
                  IN  date(p[1], p[2], effective_day)
        ELSE from_day - 1

\* previous_due_date_call with the is_due_on check of the candidate left out
previous_due_date_call_unchecked(habit, start, from_day) ==
    IF from_day <= start THEN [done |-> TRUE, value |-> NoInt]
    ELSE LET candidate == candidate_of(habit, start, from_day)
         IN  IF candidate < start THEN [done |-> TRUE, value |-> NoInt]
             ELSE [done |-> TRUE, value |-> candidate]

\* previous_due_date_call that gives up at the first candidate that is not due
previous_due_date_call_no_retry(habit, start, from_day) ==
    IF from_day <= start THEN [done |-> TRUE, value |-> NoInt]
    ELSE LET candidate == candidate_of(habit, start, from_day)
         IN  IF candidate < start \/ ~is_due_on(habit, candidate)
             THEN [done |-> TRUE, value |-> NoInt]
             ELSE [done |-> TRUE, value |-> candidate]

\* the retry starts from from_day again
previous_due_date_call_retry_same(habit, start, from_day) ==
    IF from_day <= start THEN [done |-> TRUE, value |-> NoInt]
    ELSE LET candidate == candidate_of(habit, start, from_day)
         IN  IF candidate < start THEN [done |-> TRUE, value |-> NoInt]
             ELSE IF ~is_due_on(habit, candidate)
                  THEN IF habit.repeat.mode \in {"daily", "interval", "weekly"}
                       THEN [done |-> FALSE, value |-> from_day]
                       ELSE [done |-> TRUE, value |-> NoInt]
             ELSE [done |-> TRUE, value |-> candidate]

\* every mode tries again from a candidate that is not due
previous_due_date_call_retry_all(habit, start, from_day) ==
    IF from_day <= start THEN [done |-> TRUE, value |-> NoInt]
    ELSE LET candidate == candidate_of(habit, start, from_day)
         IN  IF candidate < start THEN [done |-> TRUE, value |-> NoInt]
             ELSE IF ~is_due_on(habit, candidate)
                  THEN [done |-> FALSE, value |-> candidate]
             ELSE [done |-> TRUE, value |-> candidate]

\* one activation of previous_due_date (lines 126-167): either it returns
\* (done, value = the date or NoInt for None) or it calls itself with the
\* candidate as the new from_day (not done, value = that candidate)
previous_due_date_call(habit, start, from_day) ==
    IF from_day <= start THEN [done |-> TRUE, value |-> NoInt]
    ELSE LET candidate == candidate_of(habit, start, from_day)
         IN  IF candidate < start THEN [done |-> TRUE, value |-> NoInt]
             ELSE IF ~is_due_on(habit, candidate)
                  THEN IF habit.repeat.mode \in {"daily", "interval", "weekly"}
                       THEN [done |-> FALSE, value |-> candidate]
                       ELSE [done |-> TRUE, value |-> NoInt]
             ELSE [done |-> TRUE, value |-> candidate]

RECURSIVE previous_due_date_run(_, _, _, _)
previous_due_date_run(habit, start, s, budget) ==
    IF s.done THEN s
    ELSE IF budget <= 1 THEN previous_due_date_call(habit, start, s.value)
    ELSE LET half == previous_due_date_run(habit, start, s, budget \div 2)
         IN  previous_due_date_run(habit, start, half, budget - budget \div 2)

\* previous_due_date, lines 123-131: from_day <= start returns None before the
\* conversion of the mode, which raises
previous_due_date_raises(habit, from_day) ==
    /\ habit.start_date # None
    /\ from_day > parse_iso(habit.start_date)
    /\ invalid_mode(habit.repeat)

\* previous_due_date when it does not raise: a day number, or NoInt for None
previous_due_date(habit, from_day) ==
    IF habit.start_date = None THEN NoInt
    ELSE LET start == parse_iso(habit.start_date)
         IN  previous_due_date_run(habit, start,
                                   [done |-> FALSE, value |-> from_day],
                                   Max(1, from_day - start + 1)).value

(***************************************************************************)
(* Streak calculator                                                       *)
(***************************************************************************)
\* calculate_streak stops reading the cursor once len(dates) > 380
LOOKBACK == 380

\* a completion record of col_records
RecordDoc(habit_id, user_id, iso) ==
    [habit_id |-> habit_id, user_id |-> user_id, date |-> iso]

\* the loop reads the cursor to its end
date_set_of_all(records, habit, reference_day) ==
    {r.date : r \in {x \in DOMAIN records :
                        x.habit_id = habit._id
                        /\ IsoLeq(x.date, as_iso(reference_day))}}

\* lines 213-224: the cursor yields the habit's records with date <= the
\* reference day, latest first; the loop keeps the first LOOKBACK + 1 of them
\* (records is the collection, a bag of documents)
date_set_of(records, habit, reference_day) ==
    LET ref   == as_iso(reference_day)
        found == {r \in DOMAIN records :
                     r.habit_id = habit._id /\ IsoLeq(r.date, ref)}
        later(r) == {x \in found : x.date # r.date /\ IsoLeq(r.date, x.date)}
        before(r) == BagCardinality([x \in later(r) |-> records[x]])
    IN  {r.date : r \in {x \in found : before(x) <= LOOKBACK}}

\* the loop without the test of is_due_on
streak_iteration_any_day(habit, date_set, s) ==
    IF as_iso(s.pointer) \notin date_set THEN [s EXCEPT !.done = TRUE]
    ELSE LET prev == previous_due_date(habit, s.pointer)
         IN  IF prev = NoInt
             THEN [streak |-> s.streak + 1, pointer |-> s.pointer, done |-> TRUE]
             ELSE [streak |-> s.streak + 1, pointer |-> prev, done |-> FALSE]

\* one iteration of the while loop (lines 231-240) on s = [streak, pointer, done]
streak_iteration(habit, date_set, s) ==
    IF as_iso(s.pointer) \notin date_set THEN [s EXCEPT !.done = TRUE]
    ELSE IF ~is_due_on(habit, s.pointer) THEN [s EXCEPT !.done = TRUE]
    ELSE LET prev == previous_due_date(habit, s.pointer)
         IN  IF prev = NoInt
             THEN [streak |-> s.streak + 1, pointer |-> s.pointer, done |-> TRUE]
             ELSE [streak |-> s.streak + 1, pointer |-> prev, done |-> FALSE]

RECURSIVE streak_run(_, _, _, _)
streak_run(habit, date_set, s, budget) ==
    IF s.done THEN s
    ELSE IF budget <= 1 THEN streak_iteration(habit, date_set, s)
    ELSE LET half == streak_run(habit, date_set, s, budget \div 2)
         IN  streak_run(habit, date_set, half, budget - budget \div 2)

\* calculate_streak(habit, reference_day), reading the records collection
calculate_streak(records, habit, reference_day) ==
    LET date_set == date_set_of(records, habit, reference_day)
    IN  streak_run(habit, date_set,
                   [streak |-> 0, pointer |-> reference_day, done |-> FALSE],
                   Cardinality(date_set) + 1).streak

(***************************************************************************)
(* State                                                                   *)
(***************************************************************************)
VARIABLES
    col_habits,    \* the habits collection: _id -> document
    col_records,   \* the records collection: a bag of RecordDoc
    next_id,       \* the next ObjectId the store hands out
    now,           \* the clock in the users' timezone: [day, time]
    sent,          \* the notifier's log: a bag of [user_id, habit_id, date]
    req,           \* the lifecycle calls in progress, one per request handler
    ret,           \* what each handler's latest call returned
    sweep,         \* the executions of ReminderService.tick: runner and cron
    svc,           \* ReminderService: _task, _stop_event
    fsm,           \* the creation dialogue of a chat: FSMContext state and data
    fn_habit,      \* function-level checks: the habit argument
    fn_day,        \* function-level checks: the date argument
    fn_dates,      \* function-level checks: the stored completion dates
    fn_ret         \* function-level checks: [fn, value] of the last call

fn_vars == <<fn_habit, fn_day, fn_dates, fn_ret>>
store_vars == <<col_habits, col_records, next_id>>
sweep_vars == <<sent, sweep, svc>>
sys_vars == <<col_habits, col_records, next_id, now, sent, req, ret, sweep, svc, fsm>>

vars == <<col_habits, col_records, next_id, now, sent, req, ret, sweep, svc, fsm,
          fn_habit, fn_day, fn_dates, fn_ret>>

Procs == {"p1", "p2"}
Sweeps == {"runner", "cron"}
Users == {1, 2}

\* 2024-01-01, the date the repository's tests start habits on
Day0 == date(2024, 1, 1)

\* config.py: DEFAULT_REMINDER_TIME "21:00"
default_reminder_time == <<21, 0>>

\* the clock readings of a day: before, at and after the reminder times
Times == <<(<<9, 0>>), (<<21, 0>>)>>

\* supplied: the reminder fields a call of update_reminder was given
IdleReq == [pc |-> "idle", op |-> "none", habit_id |-> 0, user_id |-> 0,
            on_date |-> 0, habit |-> NoDoc, streak |-> 0, pre |-> FALSE,
            supplied |-> {}]

NoRet == [op |-> "none", habit_id |-> 0, user_id |-> 0, on_date |-> 0,
          found |-> FALSE, inserted |-> FALSE, raised |-> FALSE, pre |-> FALSE]

\* raised: the last tick of this caller ended by an exception
IdleSweep == [pc |-> "idle", user_ids |-> <<>>, user_id |-> 0, today_local |-> 0,
              time_now |-> None, habits |-> <<>>, raised |-> FALSE]

\* ReminderService before start: no task, no event; runner is the position of
\* _runner ("loop": at the test of line 55, "ticked": in tick or in the
\* wait_for after it), stop_pc the position of the call of stop
NoService == [task |-> "none", stop_event |-> "none", runner |-> "none",
              stop_pc |-> "idle"]

\* FSMContext data of the creation dialogue: a key that is None or missing is
\* <<>>; name is <<text>> when set
NoData == [name |-> <<>>, start_date |-> None, target_date |-> None,
           repeat |-> NoDoc, repeat_mode |-> "none",
           reminder_enabled |-> FALSE, reminder_time |-> None]

\* what the last handler of the dialogue answered to which text
NoAnswer == [handler |-> "none", text |-> <<>>, answer |-> "none"]

\* no dialogue yet: no state, no data, no inline keyboard in the chat
NoDialogue == [state |-> "none", data |-> NoData, last |-> NoAnswer, shown |-> {}]

\* the state after construction: empty collections, nothing running
SysInit ==
    /\ col_habits = <<>>
    /\ col_records = EmptyBag
    /\ next_id = 1
    /\ now = [day |-> Day0, time |-> Times[1]]
    /\ sent = EmptyBag
    /\ req = [p \in Procs |-> IdleReq]
    /\ ret = [p \in Procs |-> NoRet]
    /\ sweep = [t \in Sweeps |-> IdleSweep]
    /\ svc = NoService
    /\ fsm = NoDialogue

\* no function called yet; raised is an exception that leaves the call
NotCalled == [fn |-> "none", value |-> NoInt, raised |-> FALSE]

\* the state after construction, with no function-level check going on
Init ==
    /\ SysInit
    /\ fn_habit = NoDoc
    /\ fn_day = 0
    /\ fn_dates = {}
    /\ fn_ret = NotCalled

(***************************************************************************)
(* Habit lifecycle service (services/habits.py).  Every await of a         *)
(* coroutine is one step: other handlers and the sweep run in between.     *)
(***************************************************************************)
MaxDay == 1

\* the ObjectIds the store hands out
HabitIds == {1, 2}
OpDays == Day0..(Day0 + MaxDay)

\* create_habit, lines 92-116: the document that is inserted
HabitDoc(id, a) ==
    [_id |-> id,
     user_id |-> a.user_id,
     name |-> a.name,
     start_date |-> as_iso(a.start_date),
     target_date |-> IF a.target_date # NoInt THEN as_iso(a.target_date) ELSE None,
     archived |-> FALSE,
     repeat |-> a.repeat,
     reminder |-> [enabled |-> a.reminder_enabled,
                   time |-> IF a.reminder_time # None THEN a.reminder_time
                            ELSE default_reminder_time,
                   last_sent_date |-> None],
     current_streak |-> 0,
     best_streak |-> 0,
     last_completed_on |-> None]

CreateArgs(user_id, name, start_date, target_date, repeat, reminder_enabled, reminder_time) ==
    [user_id |-> user_id, name |-> name, start_date |-> start_date, target_date |-> target_date,
     repeat |-> repeat, reminder_enabled |-> reminder_enabled,
     reminder_time |-> reminder_time]

\* the query that does not name the owner
get_habit_any_owner(habits, habit_id, user_id) ==
    IF habit_id \in DOMAIN habits THEN habits[habit_id] ELSE NoDoc

\* get_habit: col_habits.find_one({"_id": oid, "user_id": user_id})
get_habit(habits, habit_id, user_id) ==
    IF habit_id \in DOMAIN habits /\ habits[habit_id].user_id = user_id
    THEN habits[habit_id] ELSE NoDoc

\* the number of records stored for a (habit, date) pair
CopiesFor(records, habit_id, iso) ==
    BagCardinality([r \in {x \in DOMAIN records :
                              x.habit_id = habit_id /\ x.date = iso} |-> records[r]])

\* the query of the upsert that never matches
upsert_matches_never(records, habit_id, user_id, day_key) == FALSE

\* col_records.update_one({habit_id, user_id, date}, ..., upsert=True),
\* lines 179-183: the query of the upsert
upsert_matches(records, habit_id, user_id, day_key) ==
    \E r \in DOMAIN records :
        r.habit_id = habit_id /\ r.user_id = user_id /\ r.date = day_key

\* db.py line 27: the unique index on (habit_id, date) rejects the insert
duplicate_key(records, habit_id, day_key) ==
    \E r \in DOMAIN records : r.habit_id = habit_id /\ r.date = day_key

\* the insert of the upsert: {habit_id, user_id, date} and the $setOnInsert
insert_one(records, habit_id, user_id, day_key) ==
    records (+) SetToBag({RecordDoc(habit_id, user_id, day_key)})

\* the fields of the document read by get_habit that mark_completed uses
read_for_mark(habit) ==
    [_id |-> habit._id, user_id |-> habit.user_id, start_date |-> habit.start_date,
     target_date |-> habit.target_date, repeat |-> habit.repeat,
     best_streak |-> habit.best_streak]

\* best_of without the comparison with the new streak
best_of_stale(habit, streak) == habit.best_streak

\* line 190: best = max(int(habit.get("best_streak") or 0), streak)
best_of(habit, streak) == Max(habit.best_streak, streak)

\* lines 191-202: the $set of mark_completed on the stored document
set_completed(habits, oid, streak, best, day_key) ==
    IF oid \in DOMAIN habits
    THEN [habits EXCEPT ![oid] =
            [@ EXCEPT !.current_streak = streak,
                      !.best_streak = best,
                      !.last_completed_on = day_key,
                      !.reminder = [@ EXCEPT !.last_sent_date = day_key]]]
    ELSE habits

\* what a call returned: found is "a habit / True", not "None / False";
\* raised is an exception that leaves the call
Returned(op, habit_id, user_id, on_date, found, inserted, pre) ==
    [op |-> op, habit_id |-> habit_id, user_id |-> user_id, on_date |-> on_date,
     found |-> found, inserted |-> inserted, raised |-> FALSE, pre |-> pre]

Raised(op, habit_id, user_id, on_date, pre) ==
    [op |-> op, habit_id |-> habit_id, user_id |-> user_id, on_date |-> on_date,
     found |-> FALSE, inserted |-> FALSE, raised |-> TRUE, pre |-> pre]

\* create_habit, lines 77-120
create_habit(p, a) ==
    /\ req[p].pc = "idle"
    /\ next_id \in HabitIds
    /\ col_habits' = col_habits @@ (next_id :> HabitDoc(next_id, a))
    /\ next_id' = next_id + 1
    /\ ret' = [ret EXCEPT ![p] = Returned("create_habit", next_id, a.user_id, 0, TRUE, TRUE, FALSE)]
    /\ UNCHANGED <<col_records, now, req, sweep_vars, fsm, fn_vars>>

\* the early return that lets an archived habit through
unavailable_if_missing(habit) == habit = NoDoc

\* mark_completed, line 172: if not habit or habit.get("archived")
unavailable(habit) == habit = NoDoc \/ habit.archived

\* mark_completed, lines 171-173: get_habit, then the early return
mark_completed_get(p, habit_id, user_id, on_date) ==
    /\ req[p].pc = "idle"
    /\ LET habit == get_habit(col_habits, habit_id, user_id)
           r     == [IdleReq EXCEPT !.op = "mark_completed", !.habit_id = habit_id,
                        !.user_id = user_id, !.on_date = on_date,
                        !.habit = IF habit = NoDoc THEN NoDoc ELSE read_for_mark(habit),
                        !.pre = CopiesFor(col_records, habit_id, as_iso(on_date)) > 0]
       IN  IF unavailable(habit)
           THEN /\ req' = req
                /\ ret' = [ret EXCEPT ![p] = Returned("mark_completed", habit_id,
                                                user_id, on_date, FALSE, FALSE, r.pre)]
           ELSE /\ req' = [req EXCEPT ![p] = [r EXCEPT !.pc = "upsert"]]
                /\ ret' = ret
    /\ UNCHANGED <<store_vars, now, sweep_vars, fsm, fn_vars>>

\* mark_completed, lines 179-187: the upsert finds the record or not; a
\* record that is found ends the call
mark_completed_upsert(p) ==
    /\ req[p].pc = "upsert"
    /\ LET r == req[p]
       IN  IF upsert_matches(col_records, r.habit._id, r.user_id, as_iso(r.on_date))
           THEN /\ req' = [req EXCEPT ![p] = IdleReq]
                /\ ret' = [ret EXCEPT ![p] = Returned("mark_completed", r.habit_id,
                                                r.user_id, r.on_date, TRUE, FALSE, r.pre)]
           ELSE /\ req' = [req EXCEPT ![p] = [r EXCEPT !.pc = "insert"]]
                /\ UNCHANGED ret
    /\ UNCHANGED <<store_vars, now, sweep_vars, fsm, fn_vars>>

\* mark_completed, lines 179-183: the upsert inserts the record it did not
\* find.  When another call has inserted it since, the unique index rejects
\* the insert: the store repeats the upsert (which now matches) or answers
\* with DuplicateKeyError, which mark_completed does not catch
mark_completed_insert(p) ==
    /\ req[p].pc = "insert"
    /\ LET r == req[p]
       IN  IF duplicate_key(col_records, r.habit._id, as_iso(r.on_date))
           THEN /\ req' = [req EXCEPT ![p] = IdleReq]
                /\ \/ ret' = [ret EXCEPT ![p] = Returned("mark_completed", r.habit_id,
                                                   r.user_id, r.on_date, TRUE, FALSE, r.pre)]
                   \/ ret' = [ret EXCEPT ![p] = Raised("mark_completed", r.habit_id,
                                                   r.user_id, r.on_date, r.pre)]
                /\ UNCHANGED col_records
           ELSE /\ col_records' = insert_one(col_records, r.habit._id, r.user_id,
                                             as_iso(r.on_date))
                /\ req' = [req EXCEPT ![p] = [r EXCEPT !.pc = "streak"]]
                /\ UNCHANGED ret
    /\ UNCHANGED <<col_habits, next_id, now, sweep_vars, fsm, fn_vars>>

\* mark_completed, line 189: calculate_streak reads the records
mark_completed_streak(p) ==
    /\ req[p].pc = "streak"
    /\ LET r == req[p]
       IN  req' = [req EXCEPT ![p] =
                     [r EXCEPT !.pc = "write",
                               !.streak = calculate_streak(col_records, r.habit, r.on_date)]]
    /\ UNCHANGED <<store_vars, now, ret, sweep_vars, fsm, fn_vars>>

\* mark_completed, lines 190-208: the update of the habit, then the return
mark_completed_write(p) ==
    /\ req[p].pc = "write"
    /\ LET r    == req[p]
           best == best_of(r.habit, r.streak)
           hs   == set_completed(col_habits, r.habit._id, r.streak, best, as_iso(r.on_date))
       IN  /\ col_habits' = hs
           /\ req' = [req EXCEPT ![p] = IdleReq]
           /\ ret' = [ret EXCEPT ![p] = Returned("mark_completed", r.habit_id,
                                           r.user_id, r.on_date, TRUE, TRUE, r.pre)]
    /\ UNCHANGED <<col_records, next_id, now, sweep_vars, fsm, fn_vars>>

\* archive_habit, lines 132-138: one update_one on {_id, user_id}
archive_habit(p, habit_id, user_id) ==
    /\ req[p].pc = "idle"
    /\ LET found == get_habit(col_habits, habit_id, user_id) # NoDoc
       IN  /\ col_habits' = IF found
                            THEN [col_habits EXCEPT ![habit_id] = [@ EXCEPT !.archived = TRUE]]
                            ELSE col_habits
           /\ ret' = [ret EXCEPT ![p] = Returned("archive_habit", habit_id, user_id, 0,
                                           found, FALSE, FALSE)]
    /\ UNCHANGED <<col_records, next_id, now, req, sweep_vars, fsm, fn_vars>>

\* update_reminder, lines 148-156: get_habit, then the new reminder built from
\* the document that was read (enabled is <<>> for None, else <<bool>>)
update_reminder_get(p, habit_id, user_id, enabled, reminder_time) ==
    /\ req[p].pc = "idle"
    /\ LET habit == get_habit(col_habits, habit_id, user_id)
       IN  IF habit = NoDoc
           THEN /\ req' = req
                /\ ret' = [ret EXCEPT ![p] = Returned("update_reminder", habit_id, user_id, 0,
                                                FALSE, FALSE, FALSE)]
           ELSE LET reminder ==
                        [enabled |-> IF enabled # <<>> THEN enabled[1]
                                     ELSE habit.reminder.enabled,
                         time |-> IF reminder_time # None THEN reminder_time
                                  ELSE habit.reminder.time,
                         last_sent_date |-> None]
                IN  /\ req' = [req EXCEPT ![p] =
                                 [IdleReq EXCEPT !.pc = "set_reminder",
                                     !.op = "update_reminder", !.habit_id = habit_id,
                                     !.user_id = user_id,
                                     !.supplied =
                                         {f \in {"enabled"} : enabled # <<>>}
                                         \cup {f \in {"time"} : reminder_time # None},
                                     !.habit = [habit EXCEPT !.reminder = reminder]]]
                    /\ ret' = ret
    /\ UNCHANGED <<store_vars, now, sweep_vars, fsm, fn_vars>>

\* update_reminder, lines 157-162: $set of the whole reminder on {_id}
update_reminder_set(p) ==
    /\ req[p].pc = "set_reminder"
    /\ LET r == req[p]
       IN  /\ col_habits' = IF r.habit._id \in DOMAIN col_habits
                            THEN [col_habits EXCEPT ![r.habit._id] =
                                    [@ EXCEPT !.reminder = r.habit.reminder]]
                            ELSE col_habits
           /\ ret' = [ret EXCEPT ![p] = Returned("update_reminder", r.habit_id, r.user_id, 0,
                                           TRUE, FALSE, FALSE)]
    /\ req' = [req EXCEPT ![p] = IdleReq]
    /\ UNCHANGED <<col_records, next_id, now, sweep_vars, fsm, fn_vars>>

\* update_one's $set: the fields given replace the document's
set_fields(doc, fields) ==
    [f \in DOMAIN doc |-> IF f \in DOMAIN fields THEN fields[f] ELSE doc[f]]

\* update_habit_fields, lines 305-318: nothing to set returns False; else one
\* update_one on {_id, user_id}
update_habit_fields(p, habit_id, user_id, fields) ==
    /\ req[p].pc = "idle"
    /\ LET found == DOMAIN fields # {} /\ get_habit(col_habits, habit_id, user_id) # NoDoc
       IN  /\ col_habits' = IF found
                            THEN [col_habits EXCEPT ![habit_id] = set_fields(@, fields)]
                            ELSE col_habits
           /\ ret' = [ret EXCEPT ![p] = Returned("update_habit_fields", habit_id, user_id, 0,
                                           found, FALSE, FALSE)]
    /\ UNCHANGED <<col_records, next_id, now, req, sweep_vars, fsm, fn_vars>>

\* col_records.delete_many({"habit_id": oid, "user_id": user_id}), line 323
delete_many(records, habit_id, user_id) ==
    [r \in {x \in DOMAIN records : ~(x.habit_id = habit_id /\ x.user_id = user_id)}
        |-> records[r]]

\* col_habits.delete_one({"_id": oid, "user_id": user_id}), line 324
delete_one(habits, habit_id, user_id) ==
    IF get_habit(habits, habit_id, user_id) # NoDoc
    THEN [h \in DOMAIN habits \ {habit_id} |-> habits[h]]
    ELSE habits

\* delete_habit_permanently, lines 321-323: the records are deleted first
delete_habit_permanently_records(p, habit_id, user_id) ==
    /\ req[p].pc = "idle"
    /\ col_records' = delete_many(col_records, habit_id, user_id)
    /\ req' = [req EXCEPT ![p] = [IdleReq EXCEPT !.pc = "delete_one",
                                                 !.op = "delete_habit_permanently",
                                                 !.habit_id = habit_id,
                                                 !.user_id = user_id]]
    /\ UNCHANGED <<col_habits, next_id, now, ret, sweep_vars, fsm, fn_vars>>

\* delete_habit_permanently, lines 324-325: then the habit, and the return
delete_habit_permanently_habit(p) ==
    /\ req[p].pc = "delete_one"
    /\ LET r == req[p]
       IN  /\ col_habits' = delete_one(col_habits, r.habit_id, r.user_id)
           /\ ret' = [ret EXCEPT ![p] =
                        Returned("delete_habit_permanently", r.habit_id, r.user_id, 0,
                                 get_habit(col_habits, r.habit_id, r.user_id) # NoDoc,
                                 FALSE, FALSE)]
    /\ req' = [req EXCEPT ![p] = IdleReq]
    /\ UNCHANGED <<col_records, next_id, now, sweep_vars, fsm, fn_vars>>

\* a habit name as the dialogue stores it
HabitName == <<(<<"a", "a">>)>>

Daily == RepeatDoc("daily", {}, NoInt, NoInt, NoInt)
EveryOther == RepeatDoc("interval", {}, 2, NoInt, NoInt)

\* the habits the lifecycle specifications create: daily or every other day
\* from Day0, open-ended or ending after the second day
LifeArgs ==
    {CreateArgs(1, HabitName, Day0, NoInt, Daily, FALSE, None),
     CreateArgs(1, HabitName, Day0, Day0 + 1, EveryOther, FALSE, None)}

LifeNext(p) ==
    \/ \E a \in LifeArgs : next_id = 1 /\ create_habit(p, a)
    \/ \E h \in HabitIds, u \in Users, d \in OpDays : mark_completed_get(p, h, u, d)
    \/ mark_completed_upsert(p)
    \/ mark_completed_insert(p)
    \/ mark_completed_streak(p)
    \/ mark_completed_write(p)
    \/ \E h \in {1}, u \in Users : archive_habit(p, h, u)

\* the lifecycle operations called one after another by one handler
SpecSeq == Init /\ [][LifeNext("p1")]_vars

OpsNext ==
    \E p \in Procs :
        \/ \E a \in LifeArgs : next_id = 1 /\ create_habit(p, a)
        \/ \E d \in OpDays : mark_completed_get(p, 1, 1, d)
        \/ mark_completed_upsert(p)
        \/ mark_completed_insert(p)
        \/ mark_completed_streak(p)
        \/ mark_completed_write(p)

\* create_habit and mark_completed called by two handlers whose awaits
\* interleave
SpecOps == Init /\ [][OpsNext]_vars

\* the fields the handlers change: the name
NewName == [name |-> <<(<<"b", "b", "b">>)>>]

AdminNext(p) ==
    \/ \E a \in LifeArgs : next_id = 1 /\ create_habit(p, a)
    \/ \E h \in HabitIds, u \in Users : mark_completed_get(p, h, u, Day0)
    \/ mark_completed_upsert(p)
    \/ mark_completed_insert(p)
    \/ mark_completed_streak(p)
    \/ mark_completed_write(p)
    \/ \E h \in HabitIds, u \in Users : archive_habit(p, h, u)
    \/ \E h \in HabitIds, u \in Users, fields \in {<<>>, NewName} :
          update_habit_fields(p, h, u, fields)
    \/ \E h \in HabitIds, u \in Users, enabled \in {<<>>, <<TRUE>>}, time \in {None, Times[1]} :
          update_reminder_get(p, h, u, enabled, time)
    \/ update_reminder_set(p)
    \/ \E h \in HabitIds, u \in Users : delete_habit_permanently_records(p, h, u)
    \/ delete_habit_permanently_habit(p)

\* every lifecycle operation, called one after another by one handler with
\* the ids of a habit that exists and of one that does not, as either user
SpecAdmin == Init /\ [][AdminNext("p1")]_vars

DeleteNext ==
    \/ \E a \in LifeArgs : next_id = 1 /\ create_habit("p1", a)
    \/ \E d \in OpDays : mark_completed_get("p1", 1, 1, d)
    \/ mark_completed_upsert("p1")
    \/ mark_completed_insert("p1")
    \/ mark_completed_streak("p1")
    \/ mark_completed_write("p1")
    \/ \E u \in Users : delete_habit_permanently_records("p2", 1, u)
    \/ delete_habit_permanently_habit("p2")

\* one handler marks a habit complete while another deletes it
SpecDelete == Init /\ [][DeleteNext]_vars

(***************************************************************************)
(* The creation dialogue (handlers/create_habit.py): one chat, of user 1.  *)
(* A text is a sequence of characters.  Every handler is one step.         *)
(***************************************************************************)
\* str.strip(): the text without its leading and trailing whitespace
strip(text) ==
    LET kept == {i \in 1..Len(text) : text[i] # " "}
    IN  IF kept = {} THEN <<>>
        ELSE SubSeq(text, CHOOSE i \in kept : \A j \in kept : i <= j,
                          CHOOSE i \in kept : \A j \in kept : i >= j)

\* str.lower() on the letters the texts are written with
lower(text) == [i \in 1..Len(text) |-> IF text[i] = "C" THEN "c" ELSE text[i]]

\* line 37: CANCEL_KEYWORDS (the Latin one)
CANCEL_KEYWORDS == {<<"c", "a", "n", "c", "e", "l">>}

\* _is_cancel, lines 46-47
_is_cancel(text) == text # <<>> /\ lower(strip(text)) \in CANCEL_KEYWORDS

\* the value of a decimal digit
DigitValue == [c \in {"0", "1", "2", "3", "4", "5", "6", "7", "8", "9"} |->
                 CASE c = "0" -> 0 [] c = "1" -> 1 [] c = "2" -> 2 [] c = "3" -> 3
                   [] c = "4" -> 4 [] c = "5" -> 5 [] c = "6" -> 6 [] c = "7" -> 7
                   [] c = "8" -> 8 [] c = "9" -> 9]

\* str.isdigit(): not empty, digits only
isdigit(text) == text # <<>> /\ \A i \in 1..Len(text) : text[i] \in DOMAIN DigitValue

\* int() of a text of digits
RECURSIVE int(_)
int(text) ==
    IF text = <<>> THEN 0
    ELSE 10 * int(SubSeq(text, 1, Len(text) - 1)) + DigitValue[text[Len(text)]]

\* create_set_name, line 172: if len(name) < 2
name_too_short(name) == Len(name) < 2

\* state.clear(): no state, no data; the keyboards stay in the chat
clear(f) == [f EXCEPT !.state = "none", !.data = NoData]

\* _ask_name .. _ask_reminder, lines 55-108: the state that is set and the
\* back button of the keyboard that is sent
_ask_name(f) == [f EXCEPT !.state = "waiting_name"]
_ask_emoji(f) == [f EXCEPT !.state = "waiting_emoji", !.shown = @ \cup {"name"}]
_ask_description(f) == [f EXCEPT !.state = "waiting_description", !.shown = @ \cup {"emoji"}]
_ask_start_date(f) == [f EXCEPT !.state = "waiting_start", !.shown = @ \cup {"description"}]
_ask_target_date(f) == [f EXCEPT !.state = "waiting_target", !.shown = @ \cup {"start"}]
_ask_repeat_mode(f) == [f EXCEPT !.state = "waiting_repeat_mode", !.shown = @ \cup {"target"}]
_ask_reminder(f) == [f EXCEPT !.state = "waiting_reminder_toggle", !.shown = @ \cup {"repeat"}]

\* what a handler answered
Answered(f, handler, text, answer) ==
    [f EXCEPT !.last = [handler |-> handler, text |-> text, answer |-> answer]]

\* _cancel_creation, lines 50-52
_cancel_creation(f, handler, text) == Answered(clear(f), handler, text, "cancelled")

\* _show_summary, lines 530-542: without a repeat the dialogue is dropped;
\* else the state is set and the summary is built, which parses start_date
_show_summary(f, handler) ==
    IF f.data.repeat = NoDoc
    THEN Answered(clear(f), handler, <<>>, "dropped")
    ELSE Answered([f EXCEPT !.state = "waiting_confirmation"], handler, <<>>,
                  IF f.data.start_date = None THEN "raised" ELSE "summary")

\* every variable but the dialogue
not_fsm == <<store_vars, now, req, ret, sweep_vars, fn_vars>>

\* create_start, lines 160-163
create_start ==
    /\ fsm' = Answered(_ask_name(clear(fsm)), "create_start", <<>>, "asked")
    /\ UNCHANGED not_fsm

\* create_set_name, lines 166-179
create_set_name(text) ==
    /\ fsm.state = "waiting_name"
    /\ LET name == strip(text)
       IN  fsm' = IF _is_cancel(text)
                  THEN _cancel_creation(fsm, "create_set_name", text)
                  ELSE IF name_too_short(name)
                  THEN Answered(fsm, "create_set_name", text, "rejected")
                  ELSE Answered(_ask_emoji([fsm EXCEPT !.data.name = <<name>>]),
                                "create_set_name", text, "accepted")
    /\ UNCHANGED not_fsm

\* create_pick_emoji, lines 182-195, for an emoji of the keyboard
create_pick_emoji ==
    /\ fsm.state = "waiting_emoji"
    /\ fsm' = Answered(_ask_description(fsm), "create_pick_emoji", <<>>, "accepted")
    /\ UNCHANGED not_fsm

\* create_description_skip, lines 214-218
create_description_skip ==
    /\ fsm.state = "waiting_description"
    /\ fsm' = Answered(_ask_start_date(fsm), "create_description_skip", <<>>, "accepted")
    /\ UNCHANGED not_fsm

\* create_start_date_callback, lines 229-246
create_start_date_callback(choice) ==
    /\ fsm.state = "waiting_start"
    /\ fsm' = CASE choice = "today" ->
                     Answered(_ask_target_date([fsm EXCEPT !.data.start_date = as_iso(now.day)]),
                              "create_start_date_callback", <<>>, "accepted")
                [] choice = "tomorrow" ->
                     Answered(_ask_target_date([fsm EXCEPT !.data.start_date = as_iso(now.day + 1)]),
                              "create_start_date_callback", <<>>, "accepted")
                [] OTHER ->
                     Answered([fsm EXCEPT !.shown = @ \cup {"start"}],
                              "create_start_date_callback", <<>>, "asked")
    /\ UNCHANGED not_fsm

\* the message of a date step: a cancel keyword, or a text that
\* parse_user_date turns into a date or into None
DateMessage(cancel, parsed) == [cancel |-> cancel, parsed |-> parsed]

\* create_start_date_manual, lines 249-263
create_start_date_manual(m) ==
    /\ fsm.state = "waiting_start"
    /\ fsm' = IF m.cancel THEN _cancel_creation(fsm, "create_start_date_manual", <<>>)
              ELSE IF m.parsed = NoInt
              THEN Answered([fsm EXCEPT !.shown = @ \cup {"start"}],
                            "create_start_date_manual", <<>>, "rejected")
              ELSE Answered(_ask_target_date([fsm EXCEPT !.data.start_date = as_iso(m.parsed)]),
                            "create_start_date_manual", <<>>, "accepted")
    /\ UNCHANGED not_fsm

\* create_target_callback, lines 266-277
create_target_callback(choice) ==
    /\ fsm.state = "waiting_target"
    /\ fsm' = IF choice = "none"
              THEN Answered(_ask_repeat_mode([fsm EXCEPT !.data.target_date = None]),
                            "create_target_callback", <<>>, "accepted")
              ELSE Answered([fsm EXCEPT !.shown = @ \cup {"target"}],
                            "create_target_callback", <<>>, "asked")
    /\ UNCHANGED not_fsm

\* create_target_manual, lines 280-310
create_target_manual(m) ==
    /\ fsm.state = "waiting_target"
    /\ fsm' = IF m.cancel THEN _cancel_creation(fsm, "create_target_manual", <<>>)
              ELSE IF fsm.data.start_date = None
              THEN Answered([fsm EXCEPT !.state = "waiting_start",
                                        !.shown = @ \cup {"description"}],
                            "create_target_manual", <<>>, "rejected")
              ELSE IF m.parsed = NoInt \/ m.parsed < parse_iso(fsm.data.start_date)
              THEN Answered([fsm EXCEPT !.shown = @ \cup {"target"}],
                            "create_target_manual", <<>>, "rejected")
              ELSE Answered(_ask_repeat_mode([fsm EXCEPT !.data.target_date = as_iso(m.parsed)]),
                            "create_target_manual", <<>>, "accepted")
    /\ UNCHANGED not_fsm

\* create_repeat_mode, lines 313-347, for the buttons daily, monthly, interval
create_repeat_mode(mode) ==
    /\ fsm.state = "waiting_repeat_mode"
    /\ LET f == [fsm EXCEPT !.data.repeat_mode = mode, !.data.repeat = NoDoc]
       IN  fsm' = IF mode = "daily"
                  THEN Answered(_ask_reminder([f EXCEPT !.data.repeat =
                                    RepeatDoc("daily", {}, NoInt, NoInt, NoInt)]),
                                "create_repeat_mode", <<>>, "accepted")
                  ELSE Answered([f EXCEPT !.state = "waiting_repeat_payload",
                                          !.shown = @ \cup {"repeat"}],
                                "create_repeat_mode", <<>>, "asked")
    /\ UNCHANGED not_fsm

\* create_repeat_payload_text, lines 387-424
create_repeat_payload_text(message) ==
    /\ fsm.state = "waiting_repeat_payload"
    /\ LET text == strip(message)
           mode == fsm.data.repeat_mode
           h    == "create_repeat_payload_text"
       IN  fsm' =
             IF _is_cancel(message) THEN _cancel_creation(fsm, h, message)
             ELSE IF mode = "interval"
             THEN IF ~isdigit(text) \/ int(text) < 1 \/ int(text) > 30
                  THEN Answered(fsm, h, message, "rejected")
                  ELSE Answered(_ask_reminder([fsm EXCEPT !.data.repeat =
                                   RepeatDoc("interval", {}, int(text), NoInt, NoInt)]),
                                h, message, "accepted")
             ELSE IF mode = "monthly"
             THEN IF ~isdigit(text) \/ ~(1 <= int(text) /\ int(text) <= 31)
                  THEN Answered(fsm, h, message, "rejected")
                  ELSE Answered(_ask_reminder([fsm EXCEPT !.data.repeat =
                                   RepeatDoc("monthly", {}, NoInt, NoInt, int(text))]),
                                h, message, "accepted")
             ELSE Answered(fsm, h, message, "rejected")
    /\ UNCHANGED not_fsm

\* create_reminder_toggle, lines 427-445
create_reminder_toggle(choice) ==
    /\ fsm.state = "waiting_reminder_toggle"
    /\ fsm' = IF choice = "on"
              THEN Answered([fsm EXCEPT !.data.reminder_enabled = TRUE,
                                        !.state = "waiting_reminder_time"],
                            "create_reminder_toggle", <<>>, "asked")
              ELSE _show_summary([fsm EXCEPT !.data.reminder_enabled = FALSE,
                                             !.data.reminder_time = None],
                                 "create_reminder_toggle")
    /\ UNCHANGED not_fsm

\* create_reminder_default, lines 448-454
create_reminder_default ==
    /\ fsm.state = "waiting_reminder_time"
    /\ fsm' = _show_summary([fsm EXCEPT !.data.reminder_time = default_reminder_time],
                            "create_reminder_default")
    /\ UNCHANGED not_fsm

\* create_back_callback, lines 488-527: no state filter, so the back button
\* of any keyboard still in the chat is answered
create_back_callback(target) ==
    /\ target \in fsm.shown
    /\ LET d == fsm.data
           f == CASE target = "name" -> _ask_name([fsm EXCEPT !.data = NoData])
                  [] target = "emoji" -> _ask_emoji(fsm)
                  [] target = "description" -> _ask_description(fsm)
                  [] target = "start" ->
                       _ask_start_date([fsm EXCEPT !.data =
                           [d EXCEPT !.start_date = None, !.target_date = None,
                                     !.repeat = NoDoc, !.repeat_mode = "none"]])
                  [] target = "target" ->
                       _ask_target_date([fsm EXCEPT !.data =
                           [d EXCEPT !.target_date = None,
                                     !.repeat = NoDoc, !.repeat_mode = "none"]])
                  [] target = "repeat" ->
                       _ask_repeat_mode([fsm EXCEPT !.data =
                           [d EXCEPT !.repeat = NoDoc, !.repeat_mode = "none"]])
       IN  fsm' = Answered(f, "create_back_callback", <<>>, "asked")
    /\ UNCHANGED not_fsm

\* create_confirm, lines 545-568: "no" drops the dialogue; "yes" parses the
\* dates, calls create_habit and drops the dialogue
create_confirm(choice) ==
    /\ fsm.state = "waiting_confirmation"
    /\ next_id \in HabitIds
    /\ LET d == fsm.data
       IN  IF choice = "no"
           THEN /\ fsm' = Answered(clear(fsm), "create_confirm", <<>>, "dropped")
                /\ UNCHANGED <<col_habits, next_id>>
           ELSE IF d.start_date = None
           THEN /\ fsm' = Answered(fsm, "create_confirm", <<>>, "raised")
                /\ UNCHANGED <<col_habits, next_id>>
           ELSE /\ col_habits' = col_habits @@ (next_id :> HabitDoc(next_id,
                      CreateArgs(1, d.name, parse_iso(d.start_date),
                                 IF d.target_date # None THEN parse_iso(d.target_date)
                                 ELSE NoInt,
                                 d.repeat, d.reminder_enabled, d.reminder_time)))
                /\ next_id' = next_id + 1
                /\ fsm' = Answered(clear(fsm), "create_confirm", <<>>, "created")
    /\ UNCHANGED <<col_records, now, req, ret, sweep_vars, fn_vars>>

\* the texts a user sends as a name: NameLens letters, bare or between spaces
NameLens == {0, 1, 2, 50, 51}
NameTexts ==
    {[i \in 1..(n + 2 * pad) |-> IF i <= pad \/ i > n + pad THEN " " ELSE "a"] :
        n \in NameLens, pad \in {0, 1}}
        \cup {<<"C", "a", "n", "c", "e", "l">>}

\* the texts a user sends as a number of days or a day of the month
NumberTexts == {<<"0">>, <<"1">>, <<"3", "1">>, <<"-", "1">>, <<"x">>,
                <<" ", "3", "0">>, <<"c", "a", "n", "c", "e", "l">>}

DateMessages ==
    {DateMessage(TRUE, NoInt)} \cup {DateMessage(FALSE, d) : d \in {NoInt} \cup OpDays}

CreateNext ==
    \/ next_id = 1 /\ create_start
    \/ \E text \in NameTexts : create_set_name(text)
    \/ create_pick_emoji
    \/ create_description_skip
    \/ \E choice \in {"today", "tomorrow", "manual"} : create_start_date_callback(choice)
    \/ \E m \in DateMessages : create_start_date_manual(m)
    \/ \E choice \in {"none", "manual"} : create_target_callback(choice)
    \/ \E m \in DateMessages : create_target_manual(m)
    \/ \E mode \in {"daily", "monthly", "interval"} : create_repeat_mode(mode)
    \/ \E text \in NumberTexts : create_repeat_payload_text(text)
    \/ \E choice \in {"on", "off"} : create_reminder_toggle(choice)
    \/ create_reminder_default
    \/ \E target \in {"name", "emoji", "description", "start", "target", "repeat"} :
          next_id = 1 /\ create_back_callback(target)
    \/ \E choice \in {"yes", "no"} : next_id = 1 /\ create_confirm(choice)

\* one user going through the creation dialogue until a habit is created,
\* any button of the chat pressed at any time
SpecCreate == Init /\ [][CreateNext]_vars

(***************************************************************************)
(* Reminder service (services/reminders.py) and its triggers (app.py).     *)
(* Every await of tick is one step.                                        *)
(***************************************************************************)
MaxSent == 2

\* bot.send_message delivered: the notifier's log, counting up to MaxSent
deliver(log, user_id, habit_id, day) ==
    LET e == [user_id |-> user_id, habit_id |-> habit_id, date |-> as_iso(day)]
    IN  IF CopiesIn(e, log) >= MaxSent THEN log ELSE log (+) SetToBag({e})

\* a set of numbers as the ascending list
Ascending(S) ==
    CHOOSE q \in [1..Cardinality(S) -> S] :
        \A i, j \in 1..Cardinality(S) : i < j => q[i] < q[j]

\* lines 71-73: col_habits.distinct("user_id", {archived != True,
\* reminder.enabled = True})
distinct_user_ids(habits) ==
    Ascending({habits[h].user_id : h \in {x \in DOMAIN habits :
                  ~habits[x].archived /\ habits[x].reminder.enabled}})

\* a reminder time equal to the clock reading is skipped as well
passes_checks_time_before(habit, today_local, time_now) ==
    /\ habit.reminder.enabled
    /\ TimeGt(time_now, habit.reminder.time)
    /\ habit.reminder.last_sent_date # as_iso(today_local)
    /\ is_due_on(habit, today_local)

\* lines 84-93: the checks of the loop body that read only the listed document
passes_checks(habit, today_local, time_now) ==
    /\ habit.reminder.enabled
    /\ ~TimeGt(habit.reminder.time, time_now)
    /\ habit.reminder.last_sent_date # as_iso(today_local)
    /\ is_due_on(habit, today_local)

\* list_active_habits (find {user_id, archived != True}, sorted by created_at),
\* as the _ids of the documents the loop body does not skip
list_active_habits(habits, user_id, today_local, time_now) ==
    LET ids == Ascending({h \in DOMAIN habits :
                   habits[h].user_id = user_id /\ ~habits[h].archived})
    IN  SelectSeq(ids, LAMBDA h : passes_checks(habits[h], today_local, time_now))

\* has_completion_on_date: find_one({habit_id, user_id, date})
has_completion_on_date(records, habit_id, user_id, day) ==
    \E r \in DOMAIN records :
        r.habit_id = habit_id /\ r.user_id = user_id /\ r.date = as_iso(day)

\* the loops of tick move on without an await: the next listed habit, else
\* the next user, else tick returns
advance(s) ==
    IF s.habits # <<>> THEN [s EXCEPT !.pc = "check"]
    ELSE IF s.user_ids # <<>> THEN [s EXCEPT !.pc = "user"]
    ELSE IdleSweep

\* tick, lines 71-73
tick_begin(t) ==
    /\ sweep[t].pc = "idle"
    /\ sweep' = [sweep EXCEPT ![t] =
                   advance([IdleSweep EXCEPT !.user_ids = distinct_user_ids(col_habits)])]
    /\ UNCHANGED <<store_vars, now, sent, req, ret, fsm, fn_vars>>

\* tick, lines 75-80: get_user_settings, then the clock in the user's timezone
tick_user(t) ==
    /\ sweep[t].pc = "user"
    /\ LET s == sweep[t]
       IN  sweep' = [sweep EXCEPT ![t] =
                       [s EXCEPT !.pc = "list",
                                 !.user_id = Head(s.user_ids),
                                 !.user_ids = Tail(s.user_ids),
                                 !.today_local = now.day,
                                 !.time_now = now.time]]
    /\ UNCHANGED <<store_vars, now, sent, svc, req, ret, fsm, fn_vars>>

\* tick, lines 82-93
tick_list(t) ==
    /\ sweep[t].pc = "list"
    /\ LET s == sweep[t]
       IN  sweep' = [sweep EXCEPT ![t] =
                       advance([s EXCEPT !.habits =
                           list_active_habits(col_habits, s.user_id,
                                              s.today_local, s.time_now)])]
    /\ UNCHANGED <<store_vars, now, sent, svc, req, ret, fsm, fn_vars>>

\* tick, lines 94-95
tick_check(t) ==
    /\ sweep[t].pc = "check"
    /\ LET s == sweep[t]
       IN  sweep' = [sweep EXCEPT ![t] =
                       IF has_completion_on_date(col_records, Head(s.habits),
                                                 s.user_id, s.today_local)
                       THEN advance([s EXCEPT !.habits = Tail(s.habits)])
                       ELSE [s EXCEPT !.pc = "send"]]
    /\ UNCHANGED <<store_vars, now, sent, svc, req, ret, fsm, fn_vars>>

\* tick, line 96, and _send_reminder: the message is delivered
tick_send(t) ==
    /\ sweep[t].pc = "send"
    /\ LET s == sweep[t]
       IN  /\ sent' = deliver(sent, s.user_id, Head(s.habits), s.today_local)
           /\ sweep' = [sweep EXCEPT ![t] = [s EXCEPT !.pc = "update"]]
    /\ UNCHANGED <<store_vars, now, svc, req, ret, fsm, fn_vars>>

\* the failure is swallowed and the habit is marked as reminded
tick_send_fails_marks(t) ==
    /\ sweep[t].pc = "send"
    /\ sweep' = [sweep EXCEPT ![t] = [sweep[t] EXCEPT !.pc = "update"]]
    /\ UNCHANGED <<store_vars, now, sent, svc, req, ret, fsm, fn_vars>>

\* the exception ends the task of _runner
_runner_except_none(t, s) ==
    IF t = "runner" THEN [s EXCEPT !.task = "done", !.runner = "none"] ELSE s

\* _runner, lines 56-61: an exception of tick other than CancelledError is
\* logged and the loop goes on to wait_for; the service is as it was
_runner_except(t, s) == s

\* tick, line 96, and _send_reminder: bot.send_message raises; nothing in
\* tick catches it, so the exception leaves tick (_runner logs it, line 61;
\* trigger_reminders lets it through)
tick_send_fails(t) ==
    /\ sweep[t].pc = "send"
    /\ sweep' = [sweep EXCEPT ![t] = [IdleSweep EXCEPT !.raised = TRUE]]
    /\ svc' = _runner_except(t, svc)
    /\ UNCHANGED <<store_vars, now, sent, req, ret, fsm, fn_vars>>

\* tick, lines 97-105: $set reminder.last_sent_date on {_id}
tick_update(t) ==
    /\ sweep[t].pc = "update"
    /\ LET s == sweep[t]
           h == Head(s.habits)
       IN  /\ col_habits' =
                 IF h \in DOMAIN col_habits
                 THEN [col_habits EXCEPT ![h] =
                         [@ EXCEPT !.reminder =
                             [@ EXCEPT !.last_sent_date = as_iso(s.today_local)]]]
                 ELSE col_habits
           /\ sweep' = [sweep EXCEPT ![t] = advance([s EXCEPT !.habits = Tail(s.habits)])]
    /\ UNCHANGED <<col_records, next_id, now, sent, svc, req, ret, fsm, fn_vars>>

\* ReminderService.start, lines 34-39; app.py, line 50: on_startup calls it,
\* before on_shutdown can run
start ==
    /\ svc.task # "running"
    /\ svc.stop_pc = "idle"
    /\ svc' = [svc EXCEPT !.task = "running", !.stop_event = "clear",
                          !.runner = "loop"]
    /\ UNCHANGED <<store_vars, now, sent, sweep, req, ret, fsm, fn_vars>>

\* ReminderService.stop, lines 42-46; app.py, line 57: on_shutdown calls it
\* once. With no task it returns at line 43; else the event is set and stop
\* awaits the task
stop ==
    /\ svc.stop_pc = "idle"
    /\ svc' = IF svc.task = "none"
              THEN [svc EXCEPT !.stop_pc = "returned"]
              ELSE [svc EXCEPT !.stop_event = "set", !.stop_pc = "await"]
    /\ UNCHANGED <<store_vars, now, sent, sweep, req, ret, fsm, fn_vars>>

\* ReminderService.stop, lines 46-51: the awaited task is done; the finally
\* block forgets the task and the event, and stop returns
stop_return ==
    /\ svc.stop_pc = "await"
    /\ svc.task = "done"
    /\ svc' = [svc EXCEPT !.task = "none", !.stop_event = "none",
                          !.stop_pc = "returned"]
    /\ UNCHANGED <<store_vars, now, sent, sweep, req, ret, fsm, fn_vars>>

\* _runner, line 55, with the event set: the loop ends and the task is done
runner_exit ==
    /\ svc.task = "running"
    /\ svc.runner = "loop"
    /\ svc.stop_event = "set"
    /\ svc' = [svc EXCEPT !.task = "done", !.runner = "none"]
    /\ UNCHANGED <<store_vars, now, sent, sweep, req, ret, fsm, fn_vars>>

\* _runner, lines 55-57, with the event clear: the loop calls tick
runner_tick ==
    /\ svc.task = "running"
    /\ svc.runner = "loop"
    /\ svc.stop_event = "clear"
    /\ tick_begin("runner")
    /\ svc' = [svc EXCEPT !.runner = "ticked"]

\* the wait ends by the timeout alone
wait_for_timeout_only(s) == FALSE

\* _runner, lines 62-66: wait_for(self._stop_event.wait(), ...) returns once
\* the event is set
wait_for_returns(s) == s.stop_event = "set"

\* _runner, lines 62-66, after tick has returned or raised: wait_for returns
\* because the event is set, and the loop comes back to its test
runner_wait_event ==
    /\ svc.task = "running"
    /\ svc.runner = "ticked"
    /\ sweep["runner"].pc = "idle"
    /\ wait_for_returns(svc)
    /\ svc' = [svc EXCEPT !.runner = "loop"]
    /\ UNCHANGED <<store_vars, now, sent, sweep, req, ret, fsm, fn_vars>>

\* _runner, lines 62-68: wait_for raises TimeoutError after the polling
\* interval, and continue brings the loop back to its test
runner_wait_timeout ==
    /\ svc.task = "running"
    /\ svc.runner = "ticked"
    /\ sweep["runner"].pc = "idle"
    /\ svc' = [svc EXCEPT !.runner = "loop"]
    /\ UNCHANGED <<store_vars, now, sent, sweep, req, ret, fsm, fn_vars>>

\* app.py, lines 34-40: POST /cron/reminders calls tick
trigger_reminders == tick_begin("cron") /\ UNCHANGED svc

\* the clock moves on to the next reading
advance_clock ==
    /\ \/ /\ now.time = Times[1]
          /\ now' = [now EXCEPT !.time = Times[2]]
       \/ /\ now.time = Times[2]
          /\ now.day < Day0 + MaxDay
          /\ now' = [day |-> now.day + 1, time |-> Times[1]]
    /\ UNCHANGED <<store_vars, sent, sweep, svc, req, ret, fsm, fn_vars>>

tick_steps(t) ==
    \/ tick_user(t)
    \/ tick_list(t)
    \/ tick_check(t)
    \/ tick_send(t)
    \/ tick_send_fails(t)
    \/ tick_update(t)

\* list_due_habits, lines 68-74: the active habits of the user that are due
\* on the date, as their _ids (no specification stores two habits of one
\* user, so the sort by reminder time and name has nothing to reorder)
list_due_habits(habits, user_id, on_date) ==
    SelectSeq(Ascending({h \in DOMAIN habits :
                            habits[h].user_id = user_id /\ ~habits[h].archived}),
              LAMBDA h : is_due_on(habits[h], on_date))

\* handlers/mark.py, line 34: mark_today lists the habits due today; found is
\* "the list is not empty", habit_id its first entry
list_due_habits_call(p, user_id) ==
    /\ req[p].pc = "idle"
    /\ LET due == list_due_habits(col_habits, user_id, now.day)
       IN  ret' = [ret EXCEPT ![p] =
                     Returned("list_due_habits", IF due # <<>> THEN Head(due) ELSE 0,
                              user_id, now.day, due # <<>>, FALSE, FALSE)]
    /\ UNCHANGED <<store_vars, now, req, sweep_vars, fsm, fn_vars>>

\* the habits the reminder specifications create: daily from Day0, reminder
\* enabled at the default time
SweepArgs == {CreateArgs(u, HabitName, Day0, NoInt, Daily, TRUE, None) : u \in Users}

RunnerNext ==
    \/ \E a \in SweepArgs : next_id = 1 /\ create_habit("p1", a)
    \/ \E u \in Users : mark_completed_get("p1", 1, u, now.day)
    \/ mark_completed_upsert("p1")
    \/ mark_completed_insert("p1")
    \/ mark_completed_streak("p1")
    \/ mark_completed_write("p1")
    \/ \E u \in Users : archive_habit("p1", 1, u)
    \/ \E u \in Users : update_reminder_get("p1", 1, u, <<TRUE>>, default_reminder_time)
    \/ update_reminder_set("p1")
    \/ advance_clock
    \/ start
    \/ stop
    \/ stop_return
    \/ runner_exit
    \/ runner_tick
    \/ runner_wait_event
    \/ runner_wait_timeout
    \/ tick_steps("runner")

\* the background runner alone sweeps, while a user's handler works
SpecRunner == Init /\ [][RunnerNext]_vars

ServiceNext ==
    \/ \E a \in SweepArgs : next_id = 1 /\ create_habit("p1", a)
    \/ advance_clock
    \/ start
    \/ stop
    \/ stop_return
    \/ runner_exit
    \/ runner_tick
    \/ runner_wait_event
    \/ runner_wait_timeout
    \/ tick_steps("runner")

\* the service from on_startup to on_shutdown. The event loop runs every
\* coroutine that is ready, and the calls a tick awaits come back: a step of
\* tick, the return of wait_for on the event, the end of the loop and the
\* return of stop are not put off for ever. Nothing is assumed of the
\* polling timeout
SpecStop ==
    /\ Init /\ [][ServiceNext]_vars
    /\ WF_vars(tick_steps("runner"))
    /\ WF_vars(runner_wait_event)
    /\ WF_vars(runner_exit)
    /\ WF_vars(stop_return)

\* the same, with the polling timeout elapsing and the loop going on
SpecPoll ==
    /\ SpecStop
    /\ WF_vars(runner_wait_timeout)
    /\ WF_vars(runner_tick)

RemindNext ==
    \/ \E a \in SweepArgs : a.user_id = 1 /\ next_id = 1 /\ create_habit("p1", a)
    \/ mark_completed_get("p1", 1, 1, now.day)
    \/ mark_completed_upsert("p1")
    \/ mark_completed_insert("p1")
    \/ mark_completed_streak("p1")
    \/ mark_completed_write("p1")
    \/ archive_habit("p1", 1, 1)
    \/ advance_clock
    \/ start
    \/ runner_tick
    \/ runner_wait_timeout
    \/ tick_user("runner")
    \/ tick_list("runner")
    \/ tick_check("runner")
    \/ tick_send("runner")
    \/ tick_update("runner")

\* the service started and never stopped, with no call of the notifier or of
\* the store failing, while the handlers of the habit's owner work. The
\* calls a tick awaits come back, the polling timeout elapses and the loop
\* goes on; nothing is assumed of the clock or of the user
SpecRemind ==
    /\ Init /\ [][RemindNext]_vars
    /\ WF_vars(tick_user("runner"))
    /\ WF_vars(tick_list("runner"))
    /\ WF_vars(tick_check("runner"))
    /\ WF_vars(tick_send("runner"))
    /\ WF_vars(tick_update("runner"))
    /\ WF_vars(runner_wait_timeout)
    /\ WF_vars(runner_tick)

SweepNext ==
    \/ \E a \in SweepArgs : create_habit("p1", a)
    \/ advance_clock
    \/ start
    \/ runner_tick
    \/ runner_wait_timeout
    \/ trigger_reminders
    \/ \E t \in Sweeps : tick_steps(t)

\* the background runner and POST /cron/reminders both sweep
SpecSweep == Init /\ [][SweepNext]_vars

\* handlers/habits.py: habit_reminder_toggle (line 453) calls update_reminder
\* with enabled alone, habit_reminder_time_set (line 483) with the new time
\* and enabled=True
ReminderEditNext ==
    \/ next_id = 1 /\ create_habit("p1", CreateArgs(1, HabitName, Day0, NoInt, Daily,
                                                     TRUE, Times[1]))
    \/ \E p \in Procs, enabled \in {<<TRUE>>, <<FALSE>>} :
          update_reminder_get(p, 1, 1, enabled, None)
    \/ \E p \in Procs : update_reminder_get(p, 1, 1, <<TRUE>>, Times[2])
    \/ \E p \in Procs : update_reminder_set(p)
    \/ advance_clock
    \/ trigger_reminders
    \/ tick_steps("cron")

\* the owner changes the reminder of a habit from two handlers at a time,
\* while the reminders are swept
SpecReminderEdit == Init /\ [][ReminderEditNext]_vars

ArchiveNext ==
    \/ \E a \in SweepArgs : next_id = 1 /\ a.user_id = 1 /\ create_habit("p1", a)
    \/ mark_completed_get("p1", 1, 1, now.day)
    \/ mark_completed_upsert("p1")
    \/ mark_completed_insert("p1")
    \/ mark_completed_streak("p1")
    \/ mark_completed_write("p1")
    \/ archive_habit("p2", 1, 1)
    \/ list_due_habits_call("p2", 1)
    \/ advance_clock
    \/ trigger_reminders
    \/ tick_steps("cron")

\* a habit is archived by one handler while another marks it complete and
\* the reminders are swept
SpecArchive == Init /\ [][ArchiveNext]_vars

(***************************************************************************)
(* Recurrence engine, called on bounded inputs                             *)
(***************************************************************************)
MaxSpan == 95

\* 2024-01-01 (the date the repository's tests start habits on) and the
\* month ends the monthly clamp depends on
StartDays == {date(2024, 1, 1), date(2024, 1, 31), date(2023, 1, 30)}

\* repeat documents as create_habit stores them (one key besides mode), and
\* the degenerate payloads the readers guard against (0, missing, empty)
RepeatConfigs ==
    {RepeatDoc("daily", {}, NoInt, NoInt, NoInt)}
    \cup {RepeatDoc("interval", {}, n, NoInt, NoInt) : n \in {NoInt, 0, 1, 2, 3, 4, 30}}
    \cup {RepeatDoc("weekly", {}, NoInt, w, NoInt) : w \in {NoInt, 0, 2, 6}}
    \cup {RepeatDoc("weekdays", s, NoInt, NoInt, NoInt) :
            s \in {{}, {0, 2, 4}, {5, 6}, {3}, 0..6}}
    \cup {RepeatDoc("monthly", {}, NoInt, NoInt, m) : m \in {NoInt, 1, 15, 29, 30, 31}}

TargetOffsets == {NoInt, 0, 9, 40}

FnHabits ==
    {[_id |-> 1, start_date |-> as_iso(s),
      target_date |-> IF t = NoInt THEN None ELSE as_iso(s + t),
      repeat |-> r] : s \in StartDays, t \in TargetOffsets, r \in RepeatConfigs}

InitDates ==
    /\ SysInit
    /\ fn_habit \in FnHabits
    /\ fn_day \in {parse_iso(fn_habit.start_date) + k : k \in (0 - 2)..MaxSpan}
    /\ fn_dates = {}
    /\ fn_ret = NotCalled

call_is_due_on ==
    /\ fn_ret.fn = "none"
    /\ fn_ret' = IF is_due_on_raises(fn_habit, fn_day)
                 THEN [fn |-> "is_due_on", value |-> FALSE, raised |-> TRUE]
                 ELSE [fn |-> "is_due_on", value |-> is_due_on(fn_habit, fn_day),
                       raised |-> FALSE]
    /\ UNCHANGED <<fn_habit, fn_day, fn_dates>>
    /\ UNCHANGED sys_vars

call_previous_due_date ==
    /\ fn_ret.fn = "none"
    /\ fn_ret' = IF previous_due_date_raises(fn_habit, fn_day)
                 THEN [fn |-> "previous_due_date", value |-> NoInt, raised |-> TRUE]
                 ELSE [fn |-> "previous_due_date",
                       value |-> previous_due_date(fn_habit, fn_day), raised |-> FALSE]
    /\ UNCHANGED <<fn_habit, fn_day, fn_dates>>
    /\ UNCHANGED sys_vars

NextDates == call_is_due_on \/ call_previous_due_date

SpecDates == InitDates /\ [][NextDates]_vars

\* habits whose stored repeat mode is none of RepeatMode
UnknownModeHabits ==
    {[_id |-> 1, start_date |-> as_iso(s),
      target_date |-> IF t = NoInt THEN None ELSE as_iso(s + t),
      repeat |-> RepeatDoc(m, {}, NoInt, NoInt, NoInt)] :
        s \in StartDays, t \in TargetOffsets, m \in {"yearly", "hourly"}}

InitModes ==
    /\ SysInit
    /\ fn_habit \in UnknownModeHabits
    /\ fn_day \in {parse_iso(fn_habit.start_date) + k : k \in (0 - 2)..MaxSpan}
    /\ fn_dates = {}
    /\ fn_ret = NotCalled

\* is_due_on and previous_due_date called on a habit of an unknown mode
SpecModes == InitModes /\ [][NextDates]_vars

(***************************************************************************)
(* C5: previous_due_date(habit, d) is None, or a date p with               *)
(* start_date <= p < d on which the habit is due.                          *)
(***************************************************************************)
C5_PreviousDueIsEarlierDueDate ==
    fn_ret.fn = "previous_due_date" /\ fn_ret.value # NoInt =>
        /\ parse_iso(fn_habit.start_date) <= fn_ret.value
        /\ fn_ret.value < fn_day
        /\ is_due_on(fn_habit, fn_ret.value)

\* a monthly habit with a target date: the previous month's clamped day
C5_Witness ==
    /\ fn_ret.fn = "previous_due_date"
    /\ fn_habit.repeat.mode = "monthly"
    /\ fn_habit.repeat.month_day = 31
    /\ fn_habit.target_date # None
    /\ fn_day = date(2024, 3, 1)
    /\ fn_ret.value = date(2024, 2, 29)

(***************************************************************************)
(* Streak calculator, called on bounded inputs                             *)
(***************************************************************************)
MaxRun == 4

\* the first MaxRun due dates of a habit
FirstDueDates(habit) ==
    LET first == parse_iso(habit.start_date)
        due   == {d \in first..(first + MaxSpan) : is_due_on(habit, d)}
    IN  {d \in due : Cardinality({e \in due : e <= d}) <= MaxRun}

\* days on which the habit is not due, next to its first due dates
StrayDays(habit) ==
    {d \in {e + k : e \in FirstDueDates(habit), k \in {0 - 1, 1}} :
        ~is_due_on(habit, d)}

\* the runs that reach the lookback of calculate_streak: a daily habit
\* completed on every day of its first n days
LongRuns == {LOOKBACK, LOOKBACK + 1, LOOKBACK + 2}

LongHabit ==
    [_id |-> 1, start_date |-> as_iso(date(2024, 1, 1)), target_date |-> None,
     repeat |-> RepeatDoc("daily", {}, NoInt, NoInt, NoInt)]

\* the same with days that are not due: a habit due every second day,
\* completed on every day of its first n days
StrayHabit ==
    [_id |-> 1, start_date |-> as_iso(date(2024, 1, 1)), target_date |-> None,
     repeat |-> RepeatDoc("interval", {}, 2, NoInt, NoInt)]

InitStreak ==
    /\ SysInit
    /\ fn_ret = NotCalled
    /\ \/ /\ fn_habit \in FnHabits
          /\ \E run \in SUBSET FirstDueDates(fn_habit),
                stray \in {{}, StrayDays(fn_habit)} :
                fn_dates = {as_iso(d) : d \in run \cup stray}
          /\ fn_day \in FirstDueDates(fn_habit) \cup StrayDays(fn_habit)
       \/ /\ fn_habit = LongHabit
          /\ \E n \in LongRuns :
                /\ fn_dates = {as_iso(parse_iso(fn_habit.start_date) + k) : k \in 0..(n - 1)}
                /\ fn_day = parse_iso(fn_habit.start_date) + n - 1
       \/ /\ fn_habit = StrayHabit
          /\ \E n \in LongRuns :
                /\ fn_dates = {as_iso(parse_iso(fn_habit.start_date) + k) : k \in 0..n}
                /\ fn_day \in {parse_iso(fn_habit.start_date) + n - k : k \in {0, 1}}

call_calculate_streak ==
    /\ fn_ret.fn = "none"
    /\ fn_ret' = [fn |-> "calculate_streak",
                  value |-> calculate_streak(
                      SetToBag({RecordDoc(fn_habit._id, 1, d) : d \in fn_dates}),
                      fn_habit, fn_day),
                  raised |-> FALSE]
    /\ UNCHANGED <<fn_habit, fn_day, fn_dates>>
    /\ UNCHANGED sys_vars

NextStreak == call_calculate_streak

SpecStreak == InitStreak /\ [][NextStreak]_vars

\* completion sets for a habit and a reference day: the day alone, every
\* day up to it, every second day up to it
WalkDates(habit, day) ==
    LET first == parse_iso(habit.start_date)
    IN  {{as_iso(day)},
         {as_iso(d) : d \in (first - 2)..day},
         {as_iso(d) : d \in {e \in (first - 2)..day : (day - e) % 2 = 0}}}

\* the days after start_date the walks are started from: past the target
\* dates of TargetOffsets
MaxWalk == 45

InitWalk ==
    /\ SysInit
    /\ fn_habit \in FnHabits
    /\ fn_day \in {parse_iso(fn_habit.start_date) + k : k \in (0 - 2)..MaxWalk}
    /\ fn_dates \in WalkDates(fn_habit, fn_day)
    /\ fn_ret = NotCalled

NextWalk == call_previous_due_date \/ call_calculate_streak

\* previous_due_date and calculate_streak on every habit of FnHabits, from
\* every day up to MaxWalk, with the completion sets of WalkDates
SpecWalk == InitWalk /\ [][NextWalk]_vars

\* the number of consecutive due dates, walking backward from day, each of
\* which has a completion record: the due dates after the latest due date
\* (before day) that has none
RunLength(habit, dates, day) ==
    LET first == parse_iso(habit.start_date)
        gaps  == {d \in first..day : is_due_on(habit, d) /\ as_iso(d) \notin dates}
        after == IF gaps = {} THEN first
                 ELSE 1 + CHOOSE g \in gaps : \A x \in gaps : x <= g
    IN  Cardinality({d \in after..day : is_due_on(habit, d)})

\* the reference day ends a run of completed due dates
EndsRun == /\ fn_ret.fn = "calculate_streak"
           /\ is_due_on(fn_habit, fn_day)
           /\ as_iso(fn_day) \in fn_dates

\* the completion dates up to the reference day that the habit has
DatesUpTo == {d \in fn_dates : IsoLeq(d, as_iso(fn_day))}

(***************************************************************************)
(* C4 as stated: for a run of completion records on consecutive due dates  *)
(* d0 < ... < dn, calculate_streak(habit, dn) is n + 1 for every n, and    *)
(* with a due date left out it is the length of the unbroken run ending    *)
(* at dn.                                                                  *)
(***************************************************************************)
C4_AsStated ==
    EndsRun => fn_ret.value = RunLength(fn_habit, fn_dates, fn_day)

(***************************************************************************)
(* C4 amended: the same, for a habit that has at most LOOKBACK + 1 = 381   *)
(* completion dates up to dn (calculate_streak reads no more than that).   *)
(***************************************************************************)
C4_StreakIsRunLength ==
    EndsRun /\ Cardinality(DatesUpTo) <= LOOKBACK + 1 =>
        fn_ret.value = RunLength(fn_habit, fn_dates, fn_day)

\* a Mon/Wed/Fri habit: three completed due dates after a missed one, with
\* completions on days that are not due in between
C4_Witness ==
    /\ EndsRun
    /\ fn_habit.repeat.mode = "weekdays"
    /\ fn_habit.repeat.weekdays = {0, 2, 4}
    /\ fn_ret.value = 3
    /\ Cardinality(DatesUpTo) > 3
    /\ \E d \in parse_iso(fn_habit.start_date)..fn_day :
          is_due_on(fn_habit, d) /\ as_iso(d) \notin fn_dates

(***************************************************************************)
(* Lifecycle service: definitions the statements below share               *)
(***************************************************************************)
SameCall(a, b) ==
    a.habit_id = b.habit_id /\ a.user_id = b.user_id /\ a.on_date = b.on_date

\* the call p made last was mark_completed and it returned the habit
MarkedBefore(p) == ret[p].op = "mark_completed" /\ ret[p].found

\* the completion dates stored for a habit
DatesOf(habit_id) == {r.date : r \in {x \in DOMAIN col_records : x.habit_id = habit_id}}

\* the latest completion date stored for a habit
MostRecent(habit_id) ==
    CHOOSE d \in DatesOf(habit_id) : \A e \in DatesOf(habit_id) : IsoLeq(e, d)

NoCallInProgress == \A p \in Procs : req[p].pc = "idle"

(***************************************************************************)
(* C2: when mark_completed is called again for the (habit, date) of the    *)
(* call before it, the second call returns the habit with                  *)
(* wasNewlyRecorded = false, none of its steps changes the habits or the   *)
(* records (so the streak fields stay as the first call left them), and    *)
(* one record is stored for the pair.                                      *)
(***************************************************************************)
C2_SecondMarkChangesNothing ==
    [][\A p \in Procs :
        /\ /\ MarkedBefore(p)
           /\ req[p].pc = "idle"
           /\ req'[p].pc = "upsert"
           /\ SameCall(req'[p], ret[p])
           => UNCHANGED store_vars
        /\ /\ MarkedBefore(p)
           /\ req[p].pc = "idle"
           /\ req'[p].pc = "idle"
           /\ ret'[p] # ret[p]
           /\ ret'[p].op = "mark_completed"
           /\ SameCall(ret'[p], ret[p])
           => ret'[p].found /\ ~ret'[p].inserted /\ UNCHANGED store_vars
        /\ /\ MarkedBefore(p)
           /\ req[p].pc # "idle"
           /\ req[p].op = "mark_completed"
           /\ SameCall(req[p], ret[p])
           /\ req'[p] # req[p]
           => /\ req'[p].pc = "idle"
              /\ ret'[p].found /\ ~ret'[p].inserted /\ ~ret'[p].raised
              /\ UNCHANGED store_vars
              /\ CopiesFor(col_records', req[p].habit_id, as_iso(req[p].on_date)) = 1
    ]_vars

\* a call that found the record of an earlier call has returned
C2_Witness ==
    /\ ret["p1"].op = "mark_completed"
    /\ ret["p1"].found /\ ~ret["p1"].inserted /\ ret["p1"].pre
    /\ req["p1"].pc = "idle"
    /\ CopiesFor(col_records, ret["p1"].habit_id, as_iso(ret["p1"].on_date)) = 1
    /\ col_habits[ret["p1"].habit_id].last_completed_on = as_iso(ret["p1"].on_date)

(***************************************************************************)
(* C3 as stated: two mark_completed calls for the same (habit, date) that  *)
(* both started before the record existed, and that both found the habit,  *)
(* both return the habit, one of them with wasNewlyRecorded = true, and    *)
(* one record is stored.                                                   *)
(***************************************************************************)
C3_AsStated ==
    \A p, q \in Procs :
        /\ p # q
        /\ ret[p].op = "mark_completed" /\ ret[q].op = "mark_completed"
        /\ SameCall(ret[p], ret[q])
        /\ ~ret[p].pre /\ ~ret[q].pre
        /\ ret[p].found \/ ret[p].raised
        /\ ret[q].found \/ ret[q].raised
        => /\ ret[p].found /\ ret[q].found
           /\ ret[p].inserted # ret[q].inserted
           /\ CopiesFor(col_records, ret[p].habit_id, as_iso(ret[p].on_date)) = 1

(***************************************************************************)
(* C8 as stated: between calls, the current_streak of a habit that has     *)
(* completion records is the number of consecutive due dates, walking      *)
(* backward from its latest completion date, that have a record.           *)
(***************************************************************************)
C8_AsStated ==
    NoCallInProgress =>
        \A h \in DOMAIN col_habits :
            DatesOf(h) # {} =>
                col_habits[h].current_streak =
                    RunLength(col_habits[h], DatesOf(h), parse_iso(MostRecent(h)))

(***************************************************************************)
(* C9: every stored habit has best_streak >= current_streak >= 0.          *)
(***************************************************************************)
C9_BestAtLeastCurrent ==
    \A h \in DOMAIN col_habits :
        /\ col_habits[h].best_streak >= col_habits[h].current_streak
        /\ col_habits[h].current_streak >= 0

\* two handlers have each recorded a completion of the habit, on two dates
C9_Witness ==
    /\ \A p \in Procs : ret[p].op = "mark_completed" /\ ret[p].inserted
    /\ NoCallInProgress
    /\ \E h \in DOMAIN col_habits :
          /\ Cardinality(DatesOf(h)) = 2
          /\ col_habits[h].current_streak >= 1
          /\ col_habits[h].best_streak >= 1

(***************************************************************************)
(* C10 as stated: no step lowers the stored best_streak of a habit.        *)
(***************************************************************************)
C10_AsStated ==
    [][\A h \in DOMAIN col_habits :
        col_habits'[h].best_streak >= col_habits[h].best_streak]_vars

(***************************************************************************)
(* C1 as stated: the notifier is called at most once for a habit and a     *)
(* local calendar day.                                                     *)
(***************************************************************************)
C1_AsStated == \A e \in DOMAIN sent : sent[e] <= 1

\* the habits of the users a sweep has not reached yet that it would remind
\* of now
DueAhead(t) ==
    {h \in DOMAIN col_habits :
        /\ \E i \in DOMAIN sweep[t].user_ids : sweep[t].user_ids[i] = col_habits[h].user_id
        /\ ~col_habits[h].archived
        /\ passes_checks(col_habits[h], now.day, now.time)
        /\ ~has_completion_on_date(col_records, h, col_habits[h].user_id, now.day)}

(***************************************************************************)
(* C6 as stated: while a sweep is sending the reminder of one user's habit *)
(* and other users with due reminders are still ahead of it, no step ends  *)
(* the sweep: it goes on to them whether the send fails or not.            *)
(***************************************************************************)
C6_AsStated ==
    [][\A t \in Sweeps :
        sweep[t].pc = "send" /\ DueAhead(t) # {} => sweep'[t].pc # "idle"]_vars

(***************************************************************************)
(* C7 as stated: the tick started by the runner and the tick started by    *)
(* POST /cron/reminders are never in progress at once.                     *)
(***************************************************************************)
C7_AsStated == ~(sweep["runner"].pc # "idle" /\ sweep["cron"].pc # "idle")

(***************************************************************************)
(* Calls on a habit the caller cannot reach.                               *)
(***************************************************************************)
\* the habit id names no habit, or one of another user, or an archived one
Inaccessible(habit_id, user_id) ==
    \/ habit_id \notin DOMAIN col_habits
    \/ col_habits[habit_id].user_id # user_id
    \/ col_habits[habit_id].archived

\* C11: mark_completed for a habit id that does not exist, belongs to another
\* user or is archived goes no further than its first read: it returns
\* (False, None), inserts no record and changes no field of any habit; a call
\* goes on to the upsert only for an active habit of the caller
C11_InaccessibleMarkChangesNothing ==
    [][\A p \in Procs :
         /\ (req[p].pc = "idle" /\ req'[p].pc = "upsert")
                => ~Inaccessible(req'[p].habit_id, req'[p].user_id)
         /\ (/\ req[p].pc = "idle" /\ req'[p].pc = "idle"
             /\ ret'[p] # ret[p] /\ ret'[p].op = "mark_completed")
                => /\ Inaccessible(ret'[p].habit_id, ret'[p].user_id)
                   /\ ~ret'[p].found /\ ~ret'[p].inserted /\ ~ret'[p].raised
                   /\ UNCHANGED store_vars]_vars

\* a call on an archived habit of the caller, completed once before it was
\* archived, has returned (False, None)
C11_Witness ==
    LET r == ret["p1"]
    IN  /\ r.op = "mark_completed" /\ ~r.found /\ ~r.inserted
        /\ r.habit_id \in DOMAIN col_habits
        /\ col_habits[r.habit_id].user_id = r.user_id
        /\ col_habits[r.habit_id].archived
        /\ col_habits[r.habit_id].current_streak >= 1
        /\ CopiesFor(col_records, r.habit_id, as_iso(r.on_date)) = 0

(***************************************************************************)
(* What the creation dialogue lets through.                                *)
(***************************************************************************)
\* the stored habit has a name of 1..50 characters
NameInLimits(doc) == doc.name # <<>> /\ Len(doc.name[1]) >= 1 /\ Len(doc.name[1]) <= 50

\* the stored habit does not end before it starts
TargetNotBeforeStart(doc) ==
    doc.target_date = None \/ IsoLeq(doc.start_date, doc.target_date)

\* the stored habit's interval is at least one day
IntervalAtLeastOne(doc) == doc.repeat.mode = "interval" => doc.repeat.interval_days >= 1

\* C12: a creation whose trimmed name is empty or longer than 50 characters,
\* whose target_date is before its start_date or whose interval is below 1 is
\* rejected with nothing persisted, and every trimmed name of 1..50 characters
\* is accepted
C12_AsStated ==
    /\ \A h \in DOMAIN col_habits :
          /\ NameInLimits(col_habits[h])
          /\ TargetNotBeforeStart(col_habits[h])
          /\ IntervalAtLeastOne(col_habits[h])
    /\ (fsm.last.handler = "create_set_name" /\ fsm.last.answer # "cancelled")
          => (fsm.last.answer = "accepted"
                <=> (Len(strip(fsm.last.text)) >= 1 /\ Len(strip(fsm.last.text)) <= 50))

(***************************************************************************)
(* C13 as stated: once mark_completed has recorded the completion of a     *)
(* habit for a local day and returned, no reminder for that habit and day  *)
(* is sent: not by a later sweep, not after update_reminder has cleared    *)
(* last_sent_date, not by a sweep that is already going on.                *)
(***************************************************************************)
C13_AsStated ==
    [][\A e \in DOMAIN sent' :
         (CopiesIn(e, sent') > CopiesIn(e, sent))
            => ~(CopiesFor(col_records, e.habit_id, e.date) > 0 /\ NoCallInProgress)]_vars

(***************************************************************************)
(* Interval habits: the date before from_day.                              *)
(***************************************************************************)
\* the due dates from_day - k * n, k >= 1, of an interval habit
IntervalStepsBack(habit, from_day) ==
    LET first == parse_iso(habit.start_date)
        n     == interval_of(habit.repeat)
    IN  {d \in first..(from_day - 1) : (from_day - d) % n = 0 /\ is_due_on(habit, d)}

\* C14 as stated: for an Interval{N} habit previous_due_date(habit, fromDay) is
\* fromDay - N whenever that date is not before start_date, whether or not
\* fromDay is a due date
C14_AsStated ==
    (/\ fn_ret.fn = "previous_due_date"
     /\ fn_habit.repeat.mode = "interval"
     /\ fn_day - interval_of(fn_habit.repeat) >= parse_iso(fn_habit.start_date))
        => fn_ret.value = fn_day - interval_of(fn_habit.repeat)

\* C14: for an Interval{N} habit previous_due_date(habit, fromDay) is the
\* latest due date among fromDay - N, fromDay - 2N, ... that is not before
\* start_date, and None when there is none: it is fromDay - N when that date
\* is due, and None for every fromDay that is not a multiple of N days after
\* start_date
C14_IntervalStepsBack ==
    (fn_ret.fn = "previous_due_date" /\ fn_habit.repeat.mode = "interval")
        => LET steps == IntervalStepsBack(fn_habit, fn_day)
               n     == interval_of(fn_habit.repeat)
               first == parse_iso(fn_habit.start_date)
           IN  /\ fn_ret.value = IF steps = {} THEN NoInt
                                 ELSE CHOOSE d \in steps : \A e \in steps : e <= d
               /\ (fn_day - n >= first /\ is_due_on(fn_habit, fn_day - n))
                     => fn_ret.value = fn_day - n
               /\ (fn_day - first) % n # 0 => fn_ret.value = NoInt

\* every 3 days from 2024-01-01, asked from 2024-01-09: 2024-01-06 is not
\* due, and the answer is None
C14_Witness ==
    /\ fn_ret.fn = "previous_due_date"
    /\ fn_habit.repeat.mode = "interval"
    /\ fn_habit.repeat.interval_days = 3
    /\ fn_habit.start_date = <<2024, 1, 1>>
    /\ fn_habit.target_date = None
    /\ fn_day = date(2024, 1, 9)
    /\ fn_ret.value = NoInt

(***************************************************************************)
(* The date before a due date.                                             *)
(***************************************************************************)
\* the due dates of a habit before a day
DueBefore(habit, day) ==
    {p \in parse_iso(habit.start_date)..(day - 1) : is_due_on(habit, p)}

\* C15: for a due date d of a habit of any repeat mode, previous_due_date(habit, d)
\* is the greatest date p < d on which the habit is due, and None exactly when
\* no date in [start_date, d) is due; it is None for every d <= start_date
C15_PreviousOfDueIsGreatestEarlier ==
    fn_ret.fn = "previous_due_date"
        => /\ is_due_on(fn_habit, fn_day)
                => LET earlier == DueBefore(fn_habit, fn_day)
                   IN  /\ (fn_ret.value = NoInt) <=> (earlier = {})
                       /\ earlier # {}
                             => /\ fn_ret.value \in earlier
                                /\ \A p \in earlier : p <= fn_ret.value
           /\ fn_day <= parse_iso(fn_habit.start_date) => fn_ret.value = NoInt

\* Monday, Wednesday and Friday from Monday 2024-01-01, asked from Friday
\* 2024-01-05: Wednesday 2024-01-03
C15_Witness ==
    /\ fn_ret.fn = "previous_due_date"
    /\ fn_habit.repeat.mode = "weekdays"
    /\ fn_habit.repeat.weekdays = {0, 2, 4}
    /\ fn_habit.start_date = <<2024, 1, 1>>
    /\ fn_day = date(2024, 1, 5)
    /\ is_due_on(fn_habit, fn_day)
    /\ fn_ret.value = date(2024, 1, 3)

(***************************************************************************)
(* C16 as stated: after delete_habit_permanently(h, owner) has returned    *)
(* True, neither the habit h nor a completion record with habit_id = h     *)
(* exists.                                                                 *)
(***************************************************************************)
C16_AsStated ==
    \A p \in Procs :
        (ret[p].op = "delete_habit_permanently" /\ ret[p].found)
            => /\ ret[p].habit_id \notin DOMAIN col_habits
               /\ \A r \in DOMAIN col_records : r.habit_id # ret[p].habit_id

(***************************************************************************)
(* The other lifecycle operations on a habit the caller does not own.      *)
(***************************************************************************)
\* the habit id names no habit, or a habit of another user
NotOwned(habit_id, user_id) ==
    habit_id \notin DOMAIN col_habits \/ col_habits[habit_id].user_id # user_id

\* the call returns False/None without raising, having changed nothing
ReturnsNotFound(p, op) ==
    /\ ret'[p].op = op /\ ~ret'[p].found /\ ~ret'[p].raised
    /\ req'[p].pc = "idle"
    /\ UNCHANGED store_vars

\* C17: archive_habit, update_habit_fields, update_reminder and
\* delete_habit_permanently, called with a habit id that does not exist or
\* that belongs to another user, return False/None without raising and leave
\* every habit and every completion record unchanged
C17_NotOwnedChangesNothing ==
    [][\A p \in Procs, h \in HabitIds, u \in Users :
         NotOwned(h, u) =>
            /\ archive_habit(p, h, u) => ReturnsNotFound(p, "archive_habit")
            /\ \A fields \in {<<>>, NewName} :
                  update_habit_fields(p, h, u, fields)
                     => ReturnsNotFound(p, "update_habit_fields")
            /\ \A enabled \in {<<>>, <<TRUE>>}, time \in {None, Times[1]} :
                  update_reminder_get(p, h, u, enabled, time)
                     => ReturnsNotFound(p, "update_reminder")
            /\ delete_habit_permanently_records(p, h, u) => UNCHANGED store_vars
            /\ (req[p].habit_id = h /\ req[p].user_id = u
                /\ delete_habit_permanently_habit(p))
                  => ReturnsNotFound(p, "delete_habit_permanently")]_vars

\* delete_habit_permanently called by user 2 on the habit of user 1, which
\* has a completion record, has returned False; habit and record are there
C17_Witness ==
    LET r == ret["p1"]
    IN  /\ r.op = "delete_habit_permanently" /\ ~r.found /\ ~r.raised
        /\ r.habit_id \in DOMAIN col_habits
        /\ col_habits[r.habit_id].user_id # r.user_id
        /\ CopiesFor(col_records, r.habit_id, as_iso(Day0)) = 1
        /\ req["p1"].pc = "idle"

(***************************************************************************)
(* C18 as stated: once archive_habit has succeeded for a habit,            *)
(* list_due_habits does not return it, a sweep that lists the habits       *)
(* afterwards does not take it up, and its completion records and cached   *)
(* streak fields stay as they are.                                         *)
(***************************************************************************)
\* the records of a habit
RecordsOf(records, habit_id) ==
    [r \in {x \in DOMAIN records : x.habit_id = habit_id} |-> records[r]]

\* current_streak, best_streak and last_completed_on of a habit
StreakFields(doc) == <<doc.current_streak, doc.best_streak, doc.last_completed_on>>

Archived(h) == h \in DOMAIN col_habits /\ col_habits[h].archived

C18_AsStated ==
    [][/\ \A p \in Procs :
             (ret'[p] # ret[p] /\ ret'[p].op = "list_due_habits" /\ ret'[p].found)
                => ~Archived(ret'[p].habit_id)
       /\ \A t \in Sweeps :
             (sweep[t].pc = "list" /\ sweep'[t] # sweep[t])
                => \A i \in 1..Len(sweep'[t].habits) : ~Archived(sweep'[t].habits[i])
       /\ \A h \in HabitIds :
             Archived(h)
                => /\ h \in DOMAIN col_habits'
                   /\ StreakFields(col_habits'[h]) = StreakFields(col_habits[h])
                   /\ RecordsOf(col_records', h) = RecordsOf(col_records, h)]_vars

(***************************************************************************)
(* C19 as stated: for a habit whose repeat mode is none of daily,          *)
(* weekdays, weekly, monthly, interval, is_due_on and previous_due_date    *)
(* return a result and do not raise, and is_due_on is true on every day    *)
(* of [start_date, target_date].                                           *)
(***************************************************************************)
\* start_date <= day, and day <= target_date when there is one
InRange(habit, day) ==
    /\ parse_iso(habit.start_date) <= day
    /\ habit.target_date # None => day <= parse_iso(habit.target_date)

C19_AsStated ==
    (fn_ret.fn # "none" /\ invalid_mode(fn_habit.repeat))
        => /\ ~fn_ret.raised
           /\ fn_ret.fn = "is_due_on" => (fn_ret.value <=> InRange(fn_habit, fn_day))

(***************************************************************************)
(* The bounds of is_due_on.                                                *)
(***************************************************************************)
\* C20: for every repeat mode is_due_on(habit, day) is false for every day
\* before start_date and for every day after target_date when there is one;
\* for a daily habit it is true for every day of [start_date, target_date]
C20_DueOnlyInRange ==
    fn_ret.fn = "is_due_on"
        => /\ ~fn_ret.raised
           /\ fn_day < parse_iso(fn_habit.start_date) => ~fn_ret.value
           /\ (fn_habit.target_date # None /\ fn_day > parse_iso(fn_habit.target_date))
                 => ~fn_ret.value
           /\ (fn_habit.repeat.mode = "daily" /\ InRange(fn_habit, fn_day))
                 => fn_ret.value

\* a weekly habit asked about the weekday it is due on, a week after its
\* target_date: not due
C20_Witness ==
    /\ fn_ret.fn = "is_due_on"
    /\ fn_habit.repeat.mode = "weekly"
    /\ fn_habit.repeat.week_day = weekday(fn_day)
    /\ fn_habit.target_date # None
    /\ fn_day = parse_iso(fn_habit.target_date) + 7
    /\ weekday(parse_iso(fn_habit.target_date)) = weekday(fn_day)
    /\ fn_ret.value = FALSE

(***************************************************************************)
(* Monthly habits: the day of the month, clamped to the month's length.    *)
(***************************************************************************)
\* min(m, number of days of the month of day)
ClampedDay(m, day) == Min(m, monthrange(ymd(day)[1], ymd(day)[2]))

\* the clamped day of the month before the month of day
PreviousMonthClamped(m, day) ==
    LET t == ymd(day)
        y == IF t[2] = 1 THEN t[1] - 1 ELSE t[1]
        mo == IF t[2] = 1 THEN 12 ELSE t[2] - 1
    IN  date(y, mo, Min(m, monthrange(y, mo)))

\* C21: for a Monthly habit with day-of-month m, is_due_on(day) within range
\* is true iff day.day = min(m, number of days of day's month); and
\* previous_due_date from a month's due day is the previous month's clamped
\* day, when that day is not before start_date
C21_MonthlyClamp ==
    (fn_habit.repeat.mode = "monthly" /\ fn_habit.repeat.month_day # NoInt)
        => LET m == fn_habit.repeat.month_day
           IN  /\ (fn_ret.fn = "is_due_on" /\ InRange(fn_habit, fn_day))
                     => (fn_ret.value <=> ymd(fn_day)[3] = ClampedDay(m, fn_day))
               /\ (/\ fn_ret.fn = "previous_due_date"
                   /\ InRange(fn_habit, fn_day)
                   /\ ymd(fn_day)[3] = ClampedDay(m, fn_day)
                   /\ PreviousMonthClamped(m, fn_day) >= parse_iso(fn_habit.start_date))
                     => fn_ret.value = PreviousMonthClamped(m, fn_day)

\* the 31st of every month from 2024-01-31, asked from 2024-03-31: 2024-02-29
C21_Witness ==
    /\ fn_ret.fn = "previous_due_date"
    /\ fn_habit.repeat.mode = "monthly"
    /\ fn_habit.repeat.month_day = 31
    /\ fn_habit.start_date = <<2024, 1, 31>>
    /\ fn_day = date(2024, 3, 31)
    /\ fn_ret.value = date(2024, 2, 29)

(***************************************************************************)
(* Interval, weekday-set and weekly habits within range.                   *)
(***************************************************************************)
\* C22: for an Interval{N} habit and every day within range, is_due_on(day) is
\* true iff the number of days from start_date to day is a multiple of N,
\* where a configured N below 1, or none, counts as 1
C22_IntervalMultiple ==
    (fn_ret.fn = "is_due_on" /\ fn_habit.repeat.mode = "interval"
     /\ InRange(fn_habit, fn_day))
        => LET stored == fn_habit.repeat.interval_days
               n      == IF stored < 1 THEN 1 ELSE stored
           IN  fn_ret.value <=> (fn_day - parse_iso(fn_habit.start_date)) % n = 0

\* every 3 days from 2024-01-01: not due on 2024-01-03, two days on
C22_Witness ==
    /\ fn_ret.fn = "is_due_on"
    /\ fn_habit.repeat.mode = "interval"
    /\ fn_habit.repeat.interval_days = 3
    /\ fn_habit.start_date = <<2024, 1, 1>>
    /\ fn_day = date(2024, 1, 3)
    /\ InRange(fn_habit, fn_day)
    /\ fn_ret.value = FALSE

\* C23: for a Weekdays{set} habit and every day within range, is_due_on(day) is
\* true iff day's weekday is in the set; with an empty set the habit is due
\* on the days within range and on no other, as a Daily habit is
C23_WeekdaySet ==
    (fn_ret.fn = "is_due_on" /\ fn_habit.repeat.mode = "weekdays")
        => IF fn_habit.repeat.weekdays = {}
           THEN fn_ret.value <=> InRange(fn_habit, fn_day)
           ELSE InRange(fn_habit, fn_day)
                   => (fn_ret.value <=> weekday(fn_day) \in fn_habit.repeat.weekdays)

\* an empty weekday set: due on a Tuesday within range
C23_Witness ==
    /\ fn_ret.fn = "is_due_on"
    /\ fn_habit.repeat.mode = "weekdays"
    /\ fn_habit.repeat.weekdays = {}
    /\ fn_habit.start_date = <<2024, 1, 1>>
    /\ fn_day = date(2024, 1, 2)
    /\ InRange(fn_habit, fn_day)
    /\ fn_ret.value = TRUE

\* C24: for a Weekly{anchor} habit and every day within range, is_due_on(day)
\* is true iff day's weekday is the anchor, which is the weekday of start_date
\* when none is stored; so the habit is due on exactly one of any 7
\* consecutive days within range
C24_WeeklyAnchor ==
    (fn_ret.fn = "is_due_on" /\ fn_habit.repeat.mode = "weekly"
     /\ InRange(fn_habit, fn_day))
        => LET anchor == IF fn_habit.repeat.week_day = NoInt
                         THEN weekday(parse_iso(fn_habit.start_date))
                         ELSE fn_habit.repeat.week_day
               week   == fn_day..(fn_day + 6)
           IN  /\ fn_ret.value <=> weekday(fn_day) = anchor
               /\ InRange(fn_habit, fn_day + 6)
                     => Cardinality({d \in week : is_due_on(fn_habit, d)}) = 1

\* every Wednesday from Monday 2024-01-01: due on 2024-01-03
C24_Witness ==
    /\ fn_ret.fn = "is_due_on"
    /\ fn_habit.repeat.mode = "weekly"
    /\ fn_habit.repeat.week_day = 2
    /\ fn_habit.start_date = <<2024, 1, 1>>
    /\ fn_day = date(2024, 1, 3)
    /\ InRange(fn_habit, fn_day + 6)
    /\ fn_ret.value = TRUE

\* C25: once stop has set the event of a started service, the runner begins
\* no tick; it exits, and stop returns, once the tick in flight has returned,
\* whether or not the polling timeout ever elapses; stop has returned only
\* when the runner is gone; stop on a service never started returns at once
\* and starts nothing
C25_StopEndsRunner ==
    /\ [][svc.stop_event = "set"
             => ~(svc.runner = "loop" /\ svc'.runner = "ticked")
                /\ (sweep["runner"].pc = "idle" => sweep'["runner"].pc = "idle")]_vars
    /\ (svc.stop_pc = "await") ~> (svc.stop_pc = "returned")
    /\ [](svc.stop_pc = "returned"
             => svc.task = "none" /\ svc.runner = "none"
                /\ sweep["runner"].pc = "idle")
    /\ [][svc.task = "none" /\ svc.stop_pc = "idle" /\ svc'.stop_pc # "idle"
             => svc' = [svc EXCEPT !.stop_pc = "returned"]]_vars

\* a started service has sent a reminder and has been stopped
C25_Witness ==
    /\ svc.stop_pc = "returned"
    /\ sent # EmptyBag

\* C26: when a tick of the runner has raised, the runner is still running
\* (unless stop has been called) and, after the polling wait, begins another
\* tick; the runner ends only with the stop event set
C26_TickFailureKeepsRunner ==
    /\ [](sweep["runner"].raised /\ svc.stop_event = "clear"
             => svc.task = "running" /\ svc.runner \in {"ticked", "loop"})
    /\ sweep["runner"].raised
          ~> (~sweep["runner"].raised \/ svc.stop_event # "clear")
    /\ [][svc.task = "running" /\ svc'.task # "running"
             => svc.stop_event = "set"]_vars

\* a tick has raised, the polling wait is over and the runner, not stopped,
\* is back at the test of its loop
C26_Witness ==
    /\ sweep["runner"].raised
    /\ svc.task = "running"
    /\ svc.runner = "loop"
    /\ svc.stop_event = "clear"

\* C27: the write of update_reminder changes, of the stored habit, only the
\* reminder: enabled and time only when the call was given them, and
\* last_sent_date, which is None afterwards
C27_AsStated ==
    [][\A p \in Procs :
          (update_reminder_set(p) /\ req[p].habit._id \in DOMAIN col_habits)
              => LET old == col_habits[req[p].habit._id]
                     new == col_habits'[req[p].habit._id]
                 IN  /\ new.reminder.last_sent_date = None
                     /\ "enabled" \notin req[p].supplied
                            => new.reminder.enabled = old.reminder.enabled
                     /\ "time" \notin req[p].supplied
                            => new.reminder.time = old.reminder.time
                     /\ [new EXCEPT !.reminder = old.reminder] = old]_vars

\* the stored habit has a start date and a repeat configuration
HasStartAndRepeat(doc) == doc.start_date # None /\ doc.repeat # NoDoc

\* C28: whatever steps, back callbacks and cancellations came before the
\* confirmation, every habit the creation dialogue has stored has a
\* start_date, a repeat configuration and a target_date that is absent or not
\* before the start_date
C28_AsStated ==
    \A h \in DOMAIN col_habits :
        HasStartAndRepeat(col_habits[h]) /\ TargetNotBeforeStart(col_habits[h])

\* the conditions of a reminder for the stored habit h on the user's day, at
\* the user's clock reading
Eligible(h, today, time_now) ==
    /\ h \in DOMAIN col_habits
    /\ ~col_habits[h].archived
    /\ col_habits[h].reminder.enabled
    /\ ~TimeGt(col_habits[h].reminder.time, time_now)
    /\ col_habits[h].reminder.last_sent_date # as_iso(today)
    /\ is_due_on(col_habits[h], today)
    /\ ~has_completion_on_date(col_records, h, col_habits[h].user_id, today)

\* C29: a tick sends a reminder for a habit only when the habit is not
\* archived, its reminder is enabled and not later than the user's clock,
\* last_sent_date is not today, the habit is due today and has no completion
\* record for today; the write that follows sets last_sent_date of that habit
\* to today and changes no other habit
C29_AsStated ==
    [][\A t \in Sweeps :
          LET s == sweep[t]
          IN  /\ tick_send(t) => Eligible(Head(s.habits), s.today_local, s.time_now)
              /\ tick_update(t) =>
                    \A h \in DOMAIN col_habits :
                        col_habits'[h] =
                            IF h = Head(s.habits)
                            THEN [col_habits[h] EXCEPT !.reminder.last_sent_date =
                                                          as_iso(s.today_local)]
                            ELSE col_habits[h]]_vars

\* the day previous_due_date looks at first, going back from day: one day,
\* the interval, a week, or the clamped day of the month before
FirstCandidate(habit, day) ==
    LET r == habit.repeat
    IN  CASE r.mode = "daily" -> day - 1
          [] r.mode = "interval" -> day - (IF r.interval_days < 1 THEN 1 ELSE r.interval_days)
          [] r.mode = "weekly" -> day - 7
          [] r.mode = "monthly" ->
                PreviousMonthClamped(IF r.month_day = NoInt
                                     THEN ymd(parse_iso(habit.start_date))[3]
                                     ELSE r.month_day, day)

\* C30: when the first candidate is not before start_date and is not due,
\* previous_due_date of a daily, interval or weekly habit is
\* previous_due_date from that candidate, and of a monthly habit None
C30_RetryButNotMonthly ==
    (/\ fn_ret.fn = "previous_due_date"
     /\ fn_habit.repeat.mode \in {"daily", "interval", "weekly", "monthly"}
     /\ fn_day > parse_iso(fn_habit.start_date)
     /\ FirstCandidate(fn_habit, fn_day) >= parse_iso(fn_habit.start_date)
     /\ ~is_due_on(fn_habit, FirstCandidate(fn_habit, fn_day)))
        => fn_ret.value =
              IF fn_habit.repeat.mode = "monthly" THEN NoInt
              ELSE previous_due_date(fn_habit, FirstCandidate(fn_habit, fn_day))

\* a monthly habit on the 1st from 2024-01-01 to 2024-02-10, asked from
\* 2024-04-01: the candidate 2024-03-01 is after the target date, the answer
\* is None, and 2024-02-01 is an earlier due date
C30_Witness ==
    /\ fn_ret.fn = "previous_due_date"
    /\ fn_habit.repeat.mode = "monthly"
    /\ fn_habit.repeat.month_day = 1
    /\ fn_habit.start_date = <<2024, 1, 1>>
    /\ fn_habit.target_date = <<2024, 2, 10>>
    /\ fn_day = date(2024, 4, 1)
    /\ fn_ret.value = NoInt
    /\ is_due_on(fn_habit, date(2024, 2, 1))

(***************************************************************************)
(* The retry of previous_due_date.                                         *)
(***************************************************************************)
\* previous_due_date is asked about a daily, interval or weekly habit from a
\* day after start_date, and the first candidate is not before start_date
NaiveCandidateInReach ==
    /\ fn_ret.fn = "previous_due_date"
    /\ fn_habit.repeat.mode \in {"daily", "interval", "weekly"}
    /\ fn_day > parse_iso(fn_habit.start_date)
    /\ FirstCandidate(fn_habit, fn_day) >= parse_iso(fn_habit.start_date)

\* C31 as stated: for a daily, interval or weekly habit and every fromDay
\* after start_date, the first candidate, when not before start_date, is due
C31_AsStated ==
    NaiveCandidateInReach => is_due_on(fn_habit, FirstCandidate(fn_habit, fn_day))

\* C31: for a daily, interval or weekly habit and every fromDay after
\* start_date on which the habit is due, the first candidate, when not before
\* start_date, is due and is what previous_due_date returns: no retry
C31_NoRetryFromDueDay ==
    (NaiveCandidateInReach /\ is_due_on(fn_habit, fn_day))
        => /\ is_due_on(fn_habit, FirstCandidate(fn_habit, fn_day))
           /\ fn_ret.value = FirstCandidate(fn_habit, fn_day)

\* weekly on Wednesdays from 2024-01-01, asked from the due day 2024-01-17:
\* the answer is 2024-01-10
C31_Witness ==
    /\ NaiveCandidateInReach
    /\ fn_habit.repeat.mode = "weekly"
    /\ fn_habit.repeat.week_day = 2
    /\ fn_habit.start_date = <<2024, 1, 1>>
    /\ fn_day = date(2024, 1, 17)
    /\ is_due_on(fn_habit, fn_day)
    /\ fn_ret.value = date(2024, 1, 10)

(***************************************************************************)
(* Termination of the backward walks.                                      *)
(***************************************************************************)
\* d is a date before day and not before the habit's start_date
EarlierInReach(habit, d, day) == d < day /\ d >= parse_iso(habit.start_date)

\* C32: previous_due_date ends within from_day - start_date calls of itself,
\* each candidate and each step of the weekday scan being a strictly earlier
\* date and each further call starting from a date not before start_date;
\* calculate_streak ends within one iteration per completion date read, plus
\* one, each iteration going to a strictly earlier pointer not before
\* start_date
C32_WalksTerminate ==
    LET first == parse_iso(fn_habit.start_date)
    IN  /\ (fn_ret.fn = "previous_due_date" /\ fn_day > first)
              => LET c == previous_due_date_call(fn_habit, first, fn_day)
                     k == candidate_of(fn_habit, first, fn_day)
                 IN  /\ previous_due_date_run(fn_habit, first,
                            [done |-> FALSE, value |-> fn_day], fn_day - first).done
                     /\ k < fn_day
                     /\ scan_weekdays(fn_habit, first, fn_day - 1, 1)
                            \in {fn_day - 1, fn_day - 2}
                     /\ ~c.done => EarlierInReach(fn_habit, c.value, fn_day)
                     /\ fn_ret.value # NoInt
                            => EarlierInReach(fn_habit, fn_ret.value, fn_day)
        /\ fn_ret.fn = "calculate_streak"
              => LET s0 == [streak |-> 0, pointer |-> fn_day, done |-> FALSE]
                     s1 == streak_iteration(fn_habit, fn_dates, s0)
                 IN  /\ streak_run(fn_habit, fn_dates, s0,
                                   Cardinality(fn_dates) + 1).done
                     /\ ~s1.done => EarlierInReach(fn_habit, s1.pointer, fn_day)
                     /\ fn_ret.value <= Cardinality(fn_dates)

\* weekly on Wednesdays from 2024-01-01, asked from Thursday 2024-02-01:
\* previous_due_date calls itself from 2024-01-25 and ends with None
C32_Witness ==
    /\ fn_ret.fn = "previous_due_date"
    /\ fn_habit.repeat.mode = "weekly"
    /\ fn_habit.repeat.week_day = 2
    /\ fn_habit.start_date = <<2024, 1, 1>>
    /\ fn_day = date(2024, 2, 1)
    /\ ~previous_due_date_call(fn_habit, date(2024, 1, 1), fn_day).done
    /\ fn_ret.value = NoInt

(***************************************************************************)
(* Completion records on days that are not due.                            *)
(***************************************************************************)
\* the streak with the completion records of the days that are not due
\* taken away
StreakOfDueRecords ==
    calculate_streak(
        SetToBag({RecordDoc(fn_habit._id, 1, d) :
                     d \in {e \in fn_dates : is_due_on(fn_habit, parse_iso(e))}}),
        fn_habit, fn_day)

\* calculate_streak is 0 when the reference day has no completion record or
\* is not due
ZeroWithoutDueCompletion ==
    (as_iso(fn_day) \notin fn_dates \/ ~is_due_on(fn_habit, fn_day))
        => fn_ret.value = 0

\* C33 as stated: calculate_streak is 0 when the reference day has no
\* completion record or is not due, and completion records on days that are
\* not due never change the result
C33_AsStated ==
    fn_ret.fn = "calculate_streak"
        => ZeroWithoutDueCompletion /\ fn_ret.value = StreakOfDueRecords

\* C33: calculate_streak is 0 when the reference day has no completion record
\* or is not due; for a habit with at most LOOKBACK + 1 = 381 completion
\* dates up to the reference day, completion records on days that are not
\* due do not change the result
C33_StrayRecordsDoNotCount ==
    fn_ret.fn = "calculate_streak"
        => /\ ZeroWithoutDueCompletion
           /\ Cardinality(DatesUpTo) <= LOOKBACK + 1
                 => fn_ret.value = StreakOfDueRecords

\* a Mon/Wed/Fri habit with completion records on days that are not due
\* between its due dates: a streak of two
C33_Witness ==
    /\ fn_ret.fn = "calculate_streak"
    /\ fn_habit.repeat.mode = "weekdays"
    /\ fn_habit.repeat.weekdays = {0, 2, 4}
    /\ fn_ret.value = 2
    /\ \E d \in parse_iso(fn_habit.start_date)..fn_day :
          ~is_due_on(fn_habit, d) /\ as_iso(d) \in fn_dates

(***************************************************************************)
(* Completions on days that are not due.                                   *)
(***************************************************************************)
\* C34: the write of a mark_completed that has newly recorded a date on
\* which the habit is not due finds the record stored, sets current_streak to
\* 0 and leaves the stored best_streak as it was
C34_AsStated ==
    [][\A p \in Procs :
          (/\ mark_completed_write(p)
           /\ req[p].habit._id \in DOMAIN col_habits
           /\ ~is_due_on(req[p].habit, req[p].on_date))
              => LET h == req[p].habit._id
                 IN  /\ CopiesFor(col_records, h, as_iso(req[p].on_date)) = 1
                     /\ col_habits'[h].current_streak = 0
                     /\ col_habits'[h].best_streak = col_habits[h].best_streak]_vars

\* C35: every stored completion record is the record of a stored habit
C35_AsStated ==
    \A r \in DOMAIN col_records : r.habit_id \in DOMAIN col_habits

\* the notifier has delivered the reminder of habit h of the user for the day
Reminded(user_id, h, day) ==
    CopiesIn([user_id |-> user_id, habit_id |-> h, date |-> as_iso(day)], sent) >= 1

\* C36: a step that changes last_sent_date of a habit is the write of a tick
\* whose send for that habit has been delivered, and it sets the tick's today;
\* a step in which the send of a tick raises changes no habit, no record and
\* nothing of the notifier's log, and the habit the send was for is eligible
\* for a reminder on the same day afterwards
C36_MarkedOnlyAfterSend ==
    [][/\ \A h \in DOMAIN col_habits \cap DOMAIN col_habits' :
            col_habits'[h].reminder.last_sent_date #
                col_habits[h].reminder.last_sent_date =>
            \E t \in Sweeps :
                /\ sweep[t].pc = "update"
                /\ Head(sweep[t].habits) = h
                /\ Reminded(sweep[t].user_id, h, sweep[t].today_local)
                /\ col_habits'[h].reminder.last_sent_date =
                       as_iso(sweep[t].today_local)
       /\ \A t \in Sweeps :
            sweep[t].pc = "send" /\ sweep'[t].raised =>
                /\ col_habits' = col_habits
                /\ col_records' = col_records
                /\ sent' = sent
                /\ Eligible(Head(sweep[t].habits), sweep[t].today_local,
                            sweep[t].time_now)]_vars

\* the send of the runner's tick has raised, and the habit it was for is
\* stored with no reminder delivered and eligible at the present clock reading
C36_Witness ==
    /\ sweep["runner"].raised
    /\ \E h \in DOMAIN col_habits :
          /\ Eligible(h, now.day, now.time)
          /\ ~Reminded(col_habits[h].user_id, h, now.day)

\* the conditions of C37 for the stored habit h on the day, at a clock reading
Wanted(h, day, time_now) ==
    /\ h \in DOMAIN col_habits
    /\ ~col_habits[h].archived
    /\ col_habits[h].reminder.enabled
    /\ ~TimeGt(col_habits[h].reminder.time, time_now)
    /\ is_due_on(col_habits[h], day)
    /\ ~has_completion_on_date(col_records, h, col_habits[h].user_id, day)

\* a reminder of habit h for the day has been delivered
RemindedFor(h, day) == \E u \in Users : Reminded(u, h, day)

\* the user has archived habit h or completed it on the day
StoppedWanting(h, day) ==
    /\ h \in DOMAIN col_habits
    /\ \/ col_habits[h].archived
       \/ has_completion_on_date(col_records, h, col_habits[h].user_id, day)

\* a tick of the runner has read the clock of the owner of habit h on the day
\* and is about to list the owner's habits, and h meets the conditions
TickReads(h, day) ==
    /\ sweep["runner"].pc = "list"
    /\ sweep["runner"].today_local = day
    /\ h \in DOMAIN col_habits
    /\ col_habits[h].user_id = sweep["runner"].user_id
    /\ Wanted(h, day, sweep["runner"].time_now)

\* C37: with the service started and not stopped and no call failing, a habit
\* that is active, reminder-enabled, due on the day, not completed on it and
\* whose reminder time has passed when a tick reads its owner's clock on that
\* day is sent a reminder for the day, unless the user archives or completes
\* it first; and while the service runs a habit that meets the conditions is
\* sent the reminder unless the day ends or the user archives or completes it
C37_EligibleIsReminded ==
    \A day \in OpDays :
        /\ TickReads(1, day) ~> (RemindedFor(1, day) \/ StoppedWanting(1, day))
        /\ (svc.task = "running" /\ now.day = day /\ Wanted(1, day, now.time))
              ~> (RemindedFor(1, day) \/ StoppedWanting(1, day) \/ now.day > day)

\* the running service has sent the habit its reminder for the second day,
\* after the one for the first
C37_Witness ==
    /\ svc.task = "running"
    /\ now.day = Day0 + 1
    /\ RemindedFor(1, Day0)
    /\ RemindedFor(1, Day0 + 1)
    /\ col_habits[1].reminder.last_sent_date = as_iso(Day0 + 1)

\* the dates calculate_streak keeps of the records of the call
ReadDates ==
    date_set_of(SetToBag({RecordDoc(fn_habit._id, 1, d) : d \in fn_dates}),
                fn_habit, fn_day)

\* C38: calculate_streak keeps at most LOOKBACK + 1 = 381 completion dates,
\* all of them up to the reference day and none earlier than a date up to the
\* reference day that it does not keep, and its result is at most 381
C38_StreakAtMostLookback ==
    fn_ret.fn = "calculate_streak" =>
        LET kept == ReadDates
            rest == DatesUpTo \ kept
        IN  /\ Cardinality(kept) <= LOOKBACK + 1
            /\ kept \subseteq DatesUpTo
            /\ \A b \in rest : \A a \in kept : ~IsoLeq(a, b)
            /\ fn_ret.value <= LOOKBACK + 1

\* a daily habit completed on each of its first 382 days, asked on the last:
\* 381 dates are kept and the streak is 381
C38_Witness ==
    /\ fn_ret.fn = "calculate_streak"
    /\ fn_habit = LongHabit
    /\ Cardinality(DatesUpTo) = LOOKBACK + 2
    /\ Cardinality(ReadDates) = LOOKBACK + 1
    /\ fn_ret.value = LOOKBACK + 1
====
